---- MODULE Spec2Model ----
(***************************************************************************)
(* Verification model of the MaxSAT solver (MaxSATSolver.cpp): the clause  *)
(* and cost model, the constructive heuristic, 1-flip hill climbing,       *)
(* iterated local search, tabu search, simulated annealing and GRASP.      *)
(*                                                                         *)
(* Conventions.  A TBool is one of the strings "Unknown", "False", "True". *)
(* A vector<TBool> is a sequence indexed 1..n, so the variable the code    *)
(* reaches as vars[abs(v) - 1] is reached here as vars[Abs(v)]: the model's*)
(* variable index is the code's index plus one, and "lowest index first"   *)
(* means the same in both.  A Clausula is a record with the fields of the  *)
(* class, variables (its literals, in order) and satisfaccion.             *)
(***************************************************************************)
EXTENDS Integers, Sequences, FiniteSets, TLC

VARIABLES
    estrategia,      \* the member function of Formula that is running
    pc,              \* position of the running operation
    n,               \* datosFormula.first: the variable count of the instance
    clausulasBase,   \* main's clausulasBase, built once per instance
    frecuenciasBase, \* main's frecuenciasBase, built once per instance
    clausulas,       \* Formula::clausulas of problema (a copy of clausulasBase)
    vars,            \* the vector<TBool>& the operation works on
    inicial,         \* the caller's copy of the vector it passed in
    args,            \* the other arguments of the call (maxIteraciones, ...)
    loc,             \* the local variables of the running operation
    obs,             \* what an observer of the run has recorded so far
    costo            \* value returned by the caller's calcularCosto call

(***************************************************************************)
(* Bounds of the explored inputs.                                          *)
(***************************************************************************)
MaxVars == 2
MaxClausulas == 2
MaxOcurrencias == 3
MaxIter == 2
MaxTenure == 0
MaxNiveles == 2
MaxIterPorTemp == 2
MaxIterAspiracion == 4
MaxVarsPerturbacion == 40
MaxArchivos == 2
MaxCorridas == 2
MaxTenureLargo == 4

(***************************************************************************)
(* Data model.                                                             *)
(***************************************************************************)
TBool == {"Unknown", "False", "True"}

Abs(v) == IF v < 0 THEN -v ELSE v

Literales(nv) == {l \in (-nv)..nv : l # 0}

Clausula(lits) == [variables |-> lits, satisfaccion |-> "Unknown"]

Asignaciones(nv) == [1..nv -> TBool]

AsignacionesCompletas(nv) == [1..nv -> {"False", "True"}]

RECURSIVE Suma(_)
Suma(s) == IF s = <<>> THEN 0 ELSE Head(s) + Suma(Tail(s))

\* Cut the flat literal sequence into clauses of the given lengths.
RECURSIVE Partir(_, _)
Partir(plano, largos) ==
    IF largos = <<>> THEN <<>>
    ELSE <<Clausula(SubSeq(plano, 1, Head(largos)))>>
         \o Partir(SubSeq(plano, Head(largos) + 1, Len(plano)), Tail(largos))

\* Every formula over nv variables with at most MaxClausulas clauses and at
\* most MaxOcurrencias literal occurrences in all (empty clauses included).
Formulas(nv) ==
    UNION { UNION { { Partir(plano, largos) :
                        plano \in [1..Suma(largos) -> Literales(nv)] } :
                    largos \in { l \in [1..c -> 0..MaxOcurrencias] :
                                   Suma(l) <= MaxOcurrencias } } :
            c \in 0..MaxClausulas }

(***************************************************************************)
(* Clausula::esSatisfecha and Formula::calcularCosto, computed as the code *)
(* does: a scan of the literals that skips Unknown variables and returns   *)
(* at the first true literal, and a scan of the clauses that counts.       *)
(***************************************************************************)
\* Mutant: the sign of the literal is not looked at.
LiteralSinSigno(v, variablesGlobales) == variablesGlobales[Abs(v)] = "True"

LiteralCierto(v, variablesGlobales) ==
    \/ v > 0 /\ variablesGlobales[Abs(v)] = "True"
    \/ v < 0 /\ variablesGlobales[Abs(v)] = "False"

\* Mutant: the scan stops at the first Unknown variable (break for continue).
RECURSIVE esSatisfechaCortaEnUnknown(_, _, _)
esSatisfechaCortaEnUnknown(c, variablesGlobales, k) ==
    IF k > Len(c.variables) THEN FALSE
    ELSE IF variablesGlobales[Abs(c.variables[k])] = "Unknown" THEN FALSE
    ELSE IF LiteralCierto(c.variables[k], variablesGlobales) THEN TRUE
    ELSE esSatisfechaCortaEnUnknown(c, variablesGlobales, k + 1)

\* Mutant: no Unknown test, and a negative literal holds whenever its
\* variable is not True.
RECURSIVE esSatisfechaSinUnknown(_, _, _)
esSatisfechaSinUnknown(c, variablesGlobales, k) ==
    IF k > Len(c.variables) THEN FALSE
    ELSE IF \/ c.variables[k] > 0 /\ variablesGlobales[Abs(c.variables[k])] = "True"
            \/ c.variables[k] < 0 /\ variablesGlobales[Abs(c.variables[k])] # "True"
         THEN TRUE
    ELSE esSatisfechaSinUnknown(c, variablesGlobales, k + 1)

RECURSIVE esSatisfechaDesde(_, _, _)
esSatisfechaDesde(c, variablesGlobales, k) ==
    IF k > Len(c.variables) THEN FALSE
    ELSE IF variablesGlobales[Abs(c.variables[k])] = "Unknown"
         THEN esSatisfechaDesde(c, variablesGlobales, k + 1)
    ELSE IF LiteralCierto(c.variables[k], variablesGlobales) THEN TRUE
    ELSE esSatisfechaDesde(c, variablesGlobales, k + 1)

esSatisfecha(c, variablesGlobales) == esSatisfechaDesde(c, variablesGlobales, 1)

RECURSIVE calcularCostoDesde(_, _, _)
calcularCostoDesde(cls, vs, k) ==
    IF k > Len(cls) THEN 0
    ELSE (IF esSatisfecha(cls[k], vs) THEN 0 ELSE 1)
         + calcularCostoDesde(cls, vs, k + 1)

calcularCosto(cls, vs) == calcularCostoDesde(cls, vs, 1)

(***************************************************************************)
(* crearClausula: the frequency table main accumulates while it parses.    *)
(***************************************************************************)
Conteo(p, q) == [pos |-> p, neg |-> q]

Ocurrencias(cls, lit) ==
    Suma([k \in 1..Len(cls) |->
            Cardinality({i \in 1..Len(cls[k].variables) : cls[k].variables[i] = lit})])

Frecuencias(nv, cls) ==
    [j \in 1..nv |-> Conteo(Ocurrencias(cls, j), Ocurrencias(cls, -j))]

\* What no operation of Formula writes: the instance held by main and the
\* identity and arguments of the call.
marco == <<estrategia, n, clausulasBase, frecuenciasBase, inicial, args>>

todas == <<estrategia, pc, n, clausulasBase, frecuenciasBase, clausulas, vars,
           inicial, args, loc, obs, costo>>

(***************************************************************************)
(* Cost evaluation on its own: a caller evaluates the cost of a           *)
(* three-valued assignment once, and the instance is then rewritten by     *)
(* exchanging two literals of a clause or two clauses.                     *)
(***************************************************************************)
Intercambiar(s, i, j) == [s EXCEPT ![i] = s[j], ![j] = s[i]]

InitCosto ==
    /\ estrategia = "calcularCosto"
    /\ pc = "inicio"
    /\ n \in 0..MaxVars
    /\ clausulasBase \in Formulas(n)
    /\ frecuenciasBase = Frecuencias(n, clausulasBase)
    /\ clausulas = clausulasBase
    /\ vars \in Asignaciones(n)
    /\ inicial = vars
    /\ args = <<>>
    /\ loc = <<>>
    /\ obs = <<>>
    /\ costo = 0

Evaluar ==
    /\ pc = "inicio"
    /\ costo' = calcularCosto(clausulas, vars)
    /\ pc' = "evaluado"
    /\ UNCHANGED <<marco, clausulas, vars, loc, obs>>

ReordenarLiterales ==
    /\ pc \in {"evaluado", "reordenada"}
    /\ pc' = "reordenada"
    /\ \E k \in 1..Len(clausulas) :
         \E i, j \in 1..Len(clausulas[k].variables) :
            /\ i < j
            /\ clausulas' = [clausulas EXCEPT
                   ![k].variables = Intercambiar(clausulas[k].variables, i, j)]
    /\ clausulasBase' = clausulas'
    /\ frecuenciasBase' = Frecuencias(n, clausulas')
    /\ UNCHANGED <<estrategia, n, inicial, args, vars, loc, obs, costo>>

ReordenarClausulas ==
    /\ pc \in {"evaluado", "reordenada"}
    /\ pc' = "reordenada"
    /\ \E i, j \in 1..Len(clausulas) :
         /\ i < j
         /\ clausulas' = Intercambiar(clausulas, i, j)
    /\ clausulasBase' = clausulas'
    /\ frecuenciasBase' = Frecuencias(n, clausulas')
    /\ UNCHANGED <<estrategia, n, inicial, args, vars, loc, obs, costo>>

NextCosto == Evaluar \/ ReordenarLiterales \/ ReordenarClausulas

SpecCosto == InitCosto /\ [][NextCosto]_todas

(***************************************************************************)
(* Formula::solverConstructivo, one action per iteration of its while      *)
(* loop and one for what follows the loop.                                 *)
(***************************************************************************)
TodasUnknown(nv) == [j \in 1..nv |-> "Unknown"]

\* Clausula::actualizarFrecuencias: one decrement per literal of the clause.
RECURSIVE actualizarFrecuenciasDesde(_, _, _)
actualizarFrecuenciasDesde(c, frecs, k) ==
    IF k > Len(c.variables) THEN frecs
    ELSE LET v == c.variables[k]
             f == IF v > 0
                  THEN [frecs EXCEPT ![Abs(v)].pos = @ - 1]
                  ELSE [frecs EXCEPT ![Abs(v)].neg = @ - 1]
         IN actualizarFrecuenciasDesde(c, f, k + 1)

\* Mutant: every literal is taken as a positive one.
actualizarFrecuenciasSinSigno(c, frecs) ==
    [j \in DOMAIN frecs |->
        Conteo(frecs[j].pos
                 - Cardinality({i \in 1..Len(c.variables) : Abs(c.variables[i]) = j}),
               frecs[j].neg)]

actualizarFrecuencias(c, frecs) == actualizarFrecuenciasDesde(c, frecs, 1)

\* Clausula::setSatisfaccion: the new clause and the new frequency table.
RECURSIVE setSatisfaccionDesde(_, _, _, _, _)
setSatisfaccionDesde(c, variablesGlobales, frecs, k, esperanza) ==
    IF k > Len(c.variables)
    THEN IF ~ esperanza
         THEN [clausula |-> [c EXCEPT !.satisfaccion = "False"],
               frecs |-> actualizarFrecuencias(c, frecs)]
         ELSE [clausula |-> [c EXCEPT !.satisfaccion = "Unknown"], frecs |-> frecs]
    ELSE IF LiteralCierto(c.variables[k], variablesGlobales)
         THEN [clausula |-> [c EXCEPT !.satisfaccion = "True"],
               frecs |-> actualizarFrecuencias(c, frecs)]
    ELSE setSatisfaccionDesde(c, variablesGlobales, frecs, k + 1,
             esperanza \/ variablesGlobales[Abs(c.variables[k])] = "Unknown")

setSatisfaccion(c, variablesGlobales, frecs) ==
    setSatisfaccionDesde(c, variablesGlobales, frecs, 1, FALSE)

\* Clausula::aparece, for the model's variable index.
aparece(c, variable) ==
    \E i \in 1..Len(c.variables) : Abs(c.variables[i]) = variable

\* std::max_element with the comparator of solverConstructivo: the first
\* entry whose pos + neg no other entry exceeds.
RECURSIVE maxElementDesde(_, _, _)
maxElementDesde(frecs, k, moda) ==
    IF k > Len(frecs) THEN moda
    ELSE IF (frecs[moda].pos + frecs[moda].neg) < (frecs[k].pos + frecs[k].neg)
         THEN maxElementDesde(frecs, k + 1, k)
    ELSE maxElementDesde(frecs, k + 1, moda)

\* Mutant: the last of the entries of greatest pos + neg is taken.
maxElementUltimo(frecs) ==
    CHOOSE k \in 1..Len(frecs) :
        /\ \A i \in 1..Len(frecs) :
              (frecs[i].pos + frecs[i].neg) <= (frecs[k].pos + frecs[k].neg)
        /\ \A i \in (k + 1)..Len(frecs) :
              (frecs[i].pos + frecs[i].neg) < (frecs[k].pos + frecs[k].neg)

maxElement(frecs) == maxElementDesde(frecs, 2, 1)

Centinela == -9999

\* The for loop over the clauses that follows the choice of idModa.
RECURSIVE actualizarClausulasDesde(_, _, _, _, _)
actualizarClausulasDesde(cls, variablesGlobales, frecs, idModa, k) ==
    IF k > Len(cls) THEN [clausulas |-> cls, frecs |-> frecs]
    ELSE IF cls[k].satisfaccion = "Unknown" /\ aparece(cls[k], idModa)
         THEN LET r == setSatisfaccion(cls[k], variablesGlobales, frecs)
              IN actualizarClausulasDesde([cls EXCEPT ![k] = r.clausula],
                     variablesGlobales, r.frecs, idModa, k + 1)
    ELSE actualizarClausulasDesde(cls, variablesGlobales, frecs, idModa, k + 1)

\* Mutant: the loop after the while is missing.
DejarUnknown(vs) == vs

\* The for loop after the while: every Unknown entry becomes False.
ForzarFalse(vs) == [j \in DOMAIN vs |-> IF vs[j] = "Unknown" THEN "False" ELSE vs[j]]

\* The while loop is left through its break.
SaleConstructivo(frecs) ==
    LET moda == maxElement(frecs)
    IN frecs[moda].pos <= 0 /\ frecs[moda].neg <= 0

\* examinados: a variable has been chosen, flipped or judged as a candidate;
\* minimo: the least cost among the assignments the run has held as its
\* current one; resultado: the vector a finished call handed back;
\* fueraDeRango: an index was drawn from an empty range or used outside its
\* vector; aspiro: busquedaTabu has flipped a variable that was tabu; flips:
\* the rounds of busquedaLocal that have kept a flip; ultimoFlip: for each
\* variable, the last iteration of busquedaTabu that flipped it (0: none).
ObsInicial ==
    [examinados |-> FALSE, minimo |-> 0, resultado |-> <<>>, fueraDeRango |-> FALSE,
     aspiro |-> FALSE, flips |-> 0, ultimoFlip |-> <<>>]

\* An instance on which the first choice closes two clauses and leaves one
\* open: (x1 or x2), (not x1 or x2), (not x1 or not x2 or x3).
FormulaAbierta ==
    <<Clausula(<<1, 2>>), Clausula(<<-1, 2>>), Clausula(<<-1, -2, 3>>)>>

InitConstructivo ==
    /\ estrategia = "solverConstructivo"
    /\ pc = "bucle"
    /\ \/ /\ n \in 0..MaxVars
          /\ clausulasBase \in Formulas(n)
       \/ /\ n = 3
          /\ clausulasBase = FormulaAbierta
    /\ frecuenciasBase = Frecuencias(n, clausulasBase)
    /\ clausulas = clausulasBase
    /\ vars = TodasUnknown(n)
    /\ inicial = vars
    /\ args = <<>>
    /\ loc = [frecs |-> frecuenciasBase, variablesPendientes |-> n]
    /\ obs = ObsInicial
    /\ costo = 0

PasoConstructivo ==
    /\ estrategia = "solverConstructivo"
    /\ pc = "bucle"
    /\ loc.variablesPendientes > 0
    /\ ~ SaleConstructivo(loc.frecs)
    /\ LET idModa == maxElement(loc.frecs)
           valor  == loc.frecs[idModa].pos >= loc.frecs[idModa].neg
           vg     == [vars EXCEPT ![idModa] = IF valor THEN "True" ELSE "False"]
           marcada == [loc.frecs EXCEPT ![idModa] = Conteo(Centinela, Centinela)]
           r      == actualizarClausulasDesde(clausulas, vg, marcada, idModa, 1)
       IN /\ vars' = vg
          /\ clausulas' = r.clausulas
          /\ loc' = [frecs |-> r.frecs,
                     variablesPendientes |-> loc.variablesPendientes - 1]
          /\ obs' = [obs EXCEPT !.examinados = TRUE]
    /\ UNCHANGED <<marco, pc, costo>>

FinConstructivo ==
    /\ estrategia = "solverConstructivo"
    /\ pc = "bucle"
    /\ IF loc.variablesPendientes > 0 THEN SaleConstructivo(loc.frecs) ELSE TRUE
    /\ vars' = ForzarFalse(vars)
    /\ pc' = "fin"
    /\ UNCHANGED <<marco, clausulas, loc, obs, costo>>

NextConstructivo == PasoConstructivo \/ FinConstructivo

SpecConstructivo == InitConstructivo /\ [][NextConstructivo]_todas

(***************************************************************************)
(* Formula::busquedaLocal.  Ronda is one iteration of its while loop; the  *)
(* operator busquedaLocal is the whole call, as the other strategies use   *)
(* it; the actions run it round by round.                                  *)
(***************************************************************************)
\* The toggle the code writes everywhere: True becomes False, and anything
\* else (False, Unknown) becomes True.
\* Mutant: the flip walks through the three values of TBool.
FlipCiclico(x) ==
    IF x = "True" THEN "False" ELSE IF x = "False" THEN "Unknown" ELSE "True"

Flip(x) == IF x = "True" THEN "False" ELSE "True"

FlipEn(vs, idx) == [vs EXCEPT ![idx] = Flip(vs[idx])]

RECURSIVE Ordenar(_)
Ordenar(S) ==
    IF S = {} THEN <<>>
    ELSE LET m == CHOOSE x \in S : \A y \in S : x <= y
         IN <<m>> \o Ordenar(S \ {m})

\* Mutant: the candidates are scanned from the highest index down.
CandidatosDescendentes(cls, vs) ==
    LET S == UNION { {Abs(cls[k].variables[i]) : i \in 1..Len(cls[k].variables)} :
                     k \in {c \in 1..Len(cls) : ~ esSatisfecha(cls[c], vs)} }
        asc == Ordenar(S)
    IN [i \in 1..Len(asc) |-> asc[Len(asc) + 1 - i]]

\* candidatos after sort and unique: the variables of the clauses that are
\* not satisfied, in increasing order, each once.
Candidatos(cls, vs) ==
    Ordenar(UNION { {Abs(cls[k].variables[i]) : i \in 1..Len(cls[k].variables)} :
                    k \in {c \in 1..Len(cls) : ~ esSatisfecha(cls[c], vs)} })

\* Mutant: a candidate that does not improve is left flipped.
RECURSIVE ExplorarSinRevertir(_, _, _, _, _)
ExplorarSinRevertir(cls, vs, costoActual, candidatos, k) ==
    IF k > Len(candidatos)
    THEN [vars |-> vs, costoActual |-> costoActual, mejora |-> FALSE]
    ELSE LET probado == FlipEn(vs, candidatos[k])
             nuevoCosto == calcularCosto(cls, probado)
         IN IF nuevoCosto < costoActual
            THEN [vars |-> probado, costoActual |-> nuevoCosto, mejora |-> TRUE]
            ELSE ExplorarSinRevertir(cls, probado, costoActual, candidatos, k + 1)

\* Mutant: a flip that leaves the cost unchanged is kept too.
RECURSIVE ExplorarAceptaIgual(_, _, _, _, _)
ExplorarAceptaIgual(cls, vs, costoActual, candidatos, k) ==
    IF k > Len(candidatos)
    THEN [vars |-> vs, costoActual |-> costoActual, mejora |-> FALSE]
    ELSE LET probado == FlipEn(vs, candidatos[k])
             nuevoCosto == calcularCosto(cls, probado)
         IN IF nuevoCosto <= costoActual
            THEN [vars |-> probado, costoActual |-> nuevoCosto, mejora |-> TRUE]
            ELSE ExplorarAceptaIgual(cls, FlipEn(probado, candidatos[k]),
                                     costoActual, candidatos, k + 1)

\* The for loop over candidatos: flip, evaluate, keep the first flip that
\* lowers the cost and stop, otherwise flip again and go on.
RECURSIVE ExplorarDesde(_, _, _, _, _)
ExplorarDesde(cls, vs, costoActual, candidatos, k) ==
    IF k > Len(candidatos)
    THEN [vars |-> vs, costoActual |-> costoActual, mejora |-> FALSE]
    ELSE LET probado == FlipEn(vs, candidatos[k])
             nuevoCosto == calcularCosto(cls, probado)
         IN IF nuevoCosto < costoActual
            THEN [vars |-> probado, costoActual |-> nuevoCosto, mejora |-> TRUE]
            ELSE ExplorarDesde(cls, FlipEn(probado, candidatos[k]), costoActual,
                               candidatos, k + 1)

Ronda(cls, vs, costoActual) ==
    ExplorarDesde(cls, vs, costoActual, Candidatos(cls, vs), 1)

RECURSIVE busquedaLocalDesde(_, _, _)
busquedaLocalDesde(cls, vs, costoActual) ==
    LET r == Ronda(cls, vs, costoActual)
    IN IF r.mejora THEN busquedaLocalDesde(cls, r.vars, r.costoActual) ELSE r.vars

busquedaLocal(cls, vs) == busquedaLocalDesde(cls, vs, calcularCosto(cls, vs))

InitLocal ==
    /\ estrategia = "busquedaLocal"
    /\ pc = "bucle"
    /\ n \in 0..MaxVars
    /\ clausulasBase \in Formulas(n)
    /\ frecuenciasBase = Frecuencias(n, clausulasBase)
    /\ clausulas = clausulasBase
    /\ vars \in Asignaciones(n)
    /\ inicial = vars
    /\ args = <<>>
    /\ loc = [mejora |-> TRUE, costoActual |-> calcularCosto(clausulas, vars)]
    /\ obs = ObsInicial
    /\ costo = 0

RondaLocal ==
    /\ estrategia = "busquedaLocal"
    /\ pc = "bucle"
    /\ loc.mejora
    /\ LET r == Ronda(clausulas, vars, loc.costoActual)
       IN /\ vars' = r.vars
          /\ loc' = [mejora |-> r.mejora, costoActual |-> r.costoActual]
    /\ obs' = [obs EXCEPT !.examinados = @ \/ Candidatos(clausulas, vars) # <<>>,
                          !.flips = IF Ronda(clausulas, vars, loc.costoActual).mejora
                                    THEN @ + 1 ELSE @]
    /\ UNCHANGED <<marco, pc, clausulas, costo>>

FinLocal ==
    /\ estrategia = "busquedaLocal"
    /\ pc = "bucle"
    /\ ~ loc.mejora
    /\ pc' = "fin"
    /\ obs' = [obs EXCEPT !.resultado = vars]
    /\ UNCHANGED <<marco, clausulas, vars, loc, costo>>

\* The caller passes the vector it got back to busquedaLocal once more.
ReinvocarLocal ==
    /\ estrategia = "busquedaLocal"
    /\ pc = "fin"
    /\ vars' = busquedaLocal(clausulas, vars)
    /\ pc' = "refin"
    /\ UNCHANGED <<marco, clausulas, loc, obs, costo>>

NextLocal == RondaLocal \/ FinLocal \/ ReinvocarLocal

SpecLocal == InitLocal /\ [][NextLocal]_todas

\* busquedaLocal on the vectors the program hands to it: the result of
\* solverConstructivo, a perturbed best vector of busquedaLocalIterada and a
\* construction of busquedaGRASP are all fully assigned.
InitLocalCompleta ==
    /\ InitLocal
    /\ \A j \in 1..n : vars[j] \in {"False", "True"}

SpecLocalCompleta == InitLocalCompleta /\ [][NextLocal]_todas

\* busquedaLocal is sequential code: a round that can run does run, and so
\* does the return.
SpecLocalJusta == SpecLocal /\ WF_todas(RondaLocal) /\ WF_todas(FinLocal)

(***************************************************************************)
(* Formula::busquedaLocalIterada, one action per iteration of its for loop.*)
(* The draws of gen are the \E of the actions.                             *)
(***************************************************************************)
Min(a, b) == IF a < b THEN a ELSE b

Max(a, b) == IF a > b THEN a ELSE b

\* Mutant: the product is rounded to the nearest int.
kRedondeada(nv) == Max(1, (nv * 5 + 50) \div 100)

\* k = max(1, (int)(vars.size() * 0.05)): the product truncated to an int.
kPerturbacion(nv) == Max(1, (nv * 5) \div 100)

RECURSIVE Perturbar(_, _, _)
Perturbar(vs, idxs, j) ==
    IF j > Len(idxs) THEN vs ELSE Perturbar(FlipEn(vs, idxs[j]), idxs, j + 1)

ObsDesde(cls, vs) == [ObsInicial EXCEPT !.minimo = calcularCosto(cls, vs)]

Observar(o, cls, vs) ==
    [o EXCEPT !.examinados = TRUE, !.minimo = Min(@, calcularCosto(cls, vs))]

InitILS ==
    /\ estrategia = "busquedaLocalIterada"
    /\ pc = "bucle"
    /\ n \in 0..MaxVars
    /\ clausulasBase \in Formulas(n)
    /\ frecuenciasBase = Frecuencias(n, clausulasBase)
    /\ clausulas = clausulasBase
    /\ vars \in AsignacionesCompletas(n)
    /\ inicial = vars
    /\ args \in [maxIteraciones : 0..MaxIter]
    /\ loc = [mejorCosto |-> calcularCosto(clausulas, vars),
              mejorSolucion |-> vars, i |-> 0]
    /\ obs = ObsDesde(clausulas, vars)
    /\ costo = 0

\* Mutant: the result of the round is always taken as the new best.
AceptaSiempre(costoActual, mejorCosto) == TRUE

\* 3. Aceptacion.
AceptaILS(costoActual, mejorCosto) == costoActual < mejorCosto

IteracionILS ==
    /\ estrategia = "busquedaLocalIterada"
    /\ pc = "bucle"
    /\ loc.i < args.maxIteraciones
    /\ n > 0
    /\ \E idxs \in [1..kPerturbacion(n) -> 1..n] :
         LET actual == busquedaLocal(clausulas, Perturbar(loc.mejorSolucion, idxs, 1))
             costoActual == calcularCosto(clausulas, actual)
         IN /\ loc' = IF AceptaILS(costoActual, loc.mejorCosto)
                      THEN [mejorCosto |-> costoActual, mejorSolucion |-> actual,
                            i |-> loc.i + 1]
                      ELSE [loc EXCEPT !.i = @ + 1]
            /\ obs' = Observar(obs, clausulas, actual)
    /\ UNCHANGED <<marco, pc, clausulas, vars, costo>>

\* With an empty vector dis is built over (0, -1), which the constructor of
\* the distribution forbids: a checked build stops there, before the loop.
\* In the other builds each iteration draws idx from that range and writes
\* actual[idx] outside the vector: the run is killed, or the write lands
\* outside the model's state and the iteration goes on with the empty actual.
ILSVectorVacio ==
    /\ estrategia = "busquedaLocalIterada"
    /\ pc = "bucle"
    /\ n = 0
    /\ \/ /\ pc' = "fallo"
          /\ UNCHANGED <<loc, obs>>
       \/ /\ loc.i < args.maxIteraciones
          /\ pc' = pc
          /\ loc' = [loc EXCEPT !.i = @ + 1]
          /\ obs' = [obs EXCEPT !.examinados = TRUE, !.fueraDeRango = TRUE]
    /\ UNCHANGED <<marco, clausulas, vars, costo>>

FinILS ==
    /\ estrategia = "busquedaLocalIterada"
    /\ pc = "bucle"
    /\ loc.i >= args.maxIteraciones
    /\ vars' = loc.mejorSolucion
    /\ pc' = "fin"
    /\ UNCHANGED <<marco, clausulas, loc, obs, costo>>

NextILS == IteracionILS \/ ILSVectorVacio \/ FinILS

SpecILS == InitILS /\ [][NextILS]_todas

(***************************************************************************)
(* The perturbation of one round of busquedaLocalIterada, flip by flip:    *)
(* actual starts as the best vector known and k indices are drawn.         *)
(***************************************************************************)
InitPerturbacion ==
    /\ estrategia = "perturbacion"
    /\ pc = "perturbando"
    /\ \/ /\ n \in 1..MaxVars
          /\ clausulasBase \in Formulas(n)
          /\ vars \in AsignacionesCompletas(n)
       \/ /\ n \in 1..MaxVarsPerturbacion
          /\ clausulasBase = <<>>
          /\ vars = [j \in 1..n |-> "True"]
    /\ frecuenciasBase = Frecuencias(n, clausulasBase)
    /\ clausulas = clausulasBase
    /\ inicial = vars
    /\ args = [maxIteraciones |-> 1]
    /\ loc = [actual |-> vars, k |-> kPerturbacion(n), j |-> 0, idx |-> 0]
    /\ obs = ObsDesde(clausulas, vars)
    /\ costo = 0

\* int idx = dis(gen); actual[idx] is flipped.
FlipPerturbacion ==
    /\ estrategia = "perturbacion"
    /\ pc = "perturbando"
    /\ loc.j < loc.k
    /\ \E idx \in 1..n :
         loc' = [loc EXCEPT !.actual = FlipEn(@, idx), !.j = @ + 1, !.idx = idx]
    /\ obs' = [obs EXCEPT !.examinados = TRUE]
    /\ UNCHANGED <<marco, pc, clausulas, vars, costo>>

FinPerturbacion ==
    /\ estrategia = "perturbacion"
    /\ pc = "perturbando"
    /\ loc.j >= loc.k
    /\ pc' = "perturbado"
    /\ UNCHANGED <<marco, clausulas, vars, loc, obs, costo>>

NextPerturbacion == FlipPerturbacion \/ FinPerturbacion

SpecPerturbacion == InitPerturbacion /\ [][NextPerturbacion]_todas

(***************************************************************************)
(* Formula::busquedaTabu, one action per iteration of its outer for loop.  *)
(***************************************************************************)
SinCandidato == -1

SinDelta == 1000000000

VariacionTenure == 5

\* Mutant: a tabu variable is never admitted.
AdmitidaSinAspiracion(esTabu, aspira) == ~ esTabu

\* 3. Logica de aceptacion con Criterio de Aspiracion.
Admitida(esTabu, aspira) == ~ esTabu \/ aspira

\* 2. Exploracion de la vecindad 1-flip: every variable is flipped, judged
\* and flipped again, in index order; the scan keeps the first variable of
\* least delta among the admitted ones.
RECURSIVE ExplorarVecindad(_, _, _, _, _)
ExplorarVecindad(cls, l, iter, i, r) ==
    IF i > Len(r.vars) THEN r
    ELSE LET probado == FlipEn(r.vars, i)
             nuevoCosto == calcularCosto(cls, probado)
             delta == nuevoCosto - l.costoActual
             esTabu == iter < l.tabuUntil[i]
             aspira == nuevoCosto < l.mejorCostoGlobal
             elegida == Admitida(esTabu, aspira) /\ delta < r.mejorDelta
         IN ExplorarVecindad(cls, l, iter, i + 1,
                [vars |-> FlipEn(probado, i),
                 mejorVarIdx |-> IF elegida THEN i ELSE r.mejorVarIdx,
                 mejorDelta |-> IF elegida THEN delta ELSE r.mejorDelta])

\* Mutant: mejorDelta starts at 0, so only an improving flip is chosen.
VecindadSoloMejora(cls, vs, l) ==
    ExplorarVecindad(cls, l, l.iter, 1,
        [vars |-> vs, mejorVarIdx |-> SinCandidato, mejorDelta |-> 0])

Vecindad(cls, vs, l) ==
    ExplorarVecindad(cls, l, l.iter, 1,
        [vars |-> vs, mejorVarIdx |-> SinCandidato, mejorDelta |-> SinDelta])

\* An instance on which the scan of iteration 4 meets a tabu variable whose
\* flip beats the best cost known: from True, False, False the search flips
\* variables 1, 2 and 3 in turn, and flipping 1 back then satisfies all.
FormulaAspiracion == <<Clausula(<<1>>), Clausula(<<-1, 2>>), Clausula(<<-1, 3>>)>>

InitTabu ==
    /\ estrategia = "busquedaTabu"
    /\ pc = "bucle"
    /\ \/ /\ n \in 0..MaxVars
          /\ clausulasBase \in Formulas(n)
          /\ args \in [maxIteraciones : 0..MaxIter, tenureBase : 0..MaxTenure]
       \/ /\ n = 3
          /\ clausulasBase = FormulaAspiracion
          /\ args \in [maxIteraciones : 0..MaxIterAspiracion,
                        tenureBase : 0..MaxTenure]
    /\ frecuenciasBase = Frecuencias(n, clausulasBase)
    /\ clausulas = clausulasBase
    /\ vars \in AsignacionesCompletas(n)
    /\ inicial = vars
    /\ loc = [tabuUntil |-> [j \in 1..n |-> 0],
              mejorSolucionGlobal |-> vars,
              mejorCostoGlobal |-> calcularCosto(clausulas, vars),
              costoActual |-> calcularCosto(clausulas, vars),
              iter |-> 1]
    /\ obs = ObsDesde(clausulas, vars)
    /\ costo = 0

\* Mutant: the running cost is not updated after the move.
CostoSinMovida(costoActual, mejorDelta) == costoActual

\* costoActual += mejorDelta.
CostoTrasMovida(costoActual, mejorDelta) == costoActual + mejorDelta

\* Mutant: the expiry forgets tenureBase.
ExpiraSinBase(iter, tenureBase, tenure) == iter + tenure

\* tabuUntil[mejorVarIdx] = iter + tenureBase + disTenure(gen).
Expira(iter, tenureBase, tenure) == iter + tenureBase + tenure

\* 4. Ejecutar el mejor movimiento encontrado.
IteracionTabu ==
    /\ estrategia = "busquedaTabu"
    /\ pc = "bucle"
    /\ loc.iter <= args.maxIteraciones
    /\ LET v == Vecindad(clausulas, vars, loc)
       IN IF v.mejorVarIdx # SinCandidato
          THEN \E tenure \in 0..VariacionTenure :
                 LET movida == FlipEn(v.vars, v.mejorVarIdx)
                     costoActual == CostoTrasMovida(loc.costoActual, v.mejorDelta)
                     mejora == costoActual < loc.mejorCostoGlobal
                 IN /\ vars' = movida
                    /\ loc' = [tabuUntil |->
                                  [loc.tabuUntil EXCEPT ![v.mejorVarIdx] =
                                      Expira(loc.iter, args.tenureBase, tenure)],
                               mejorSolucionGlobal |->
                                  IF mejora THEN movida ELSE loc.mejorSolucionGlobal,
                               mejorCostoGlobal |->
                                  IF mejora THEN costoActual ELSE loc.mejorCostoGlobal,
                               costoActual |-> costoActual,
                               iter |-> loc.iter + 1]
                    /\ obs' = [Observar(obs, clausulas, movida) EXCEPT
                                  !.aspiro = @ \/ loc.iter < loc.tabuUntil[v.mejorVarIdx],
                                  !.ultimoFlip =
                                      [j \in 1..n |->
                                          IF j = v.mejorVarIdx THEN loc.iter
                                          ELSE IF j \in DOMAIN @ THEN @[j] ELSE 0]]
          ELSE /\ vars' = v.vars
               /\ loc' = [loc EXCEPT !.iter = @ + 1]
               /\ obs' = [obs EXCEPT !.examinados = @ \/ n > 0]
    /\ UNCHANGED <<marco, pc, clausulas, costo>>

\* Mutant: the last iterate is returned, not the best one.
RetornoTabuActual(l, vs) == vs

\* Retornar la mejor solucion encontrada en todo el proceso.
RetornoTabu(l, vs) == l.mejorSolucionGlobal

FinTabu ==
    /\ estrategia = "busquedaTabu"
    /\ pc = "bucle"
    /\ loc.iter > args.maxIteraciones
    /\ vars' = RetornoTabu(loc, vars)
    /\ pc' = "fin"
    /\ UNCHANGED <<marco, clausulas, loc, obs, costo>>

NextTabu == IteracionTabu \/ FinTabu

SpecTabu == InitTabu /\ [][NextTabu]_todas

\* busquedaTabu with tenures long enough to forbid a variable for some
\* iterations whatever disTenure draws.
InitTabuTenure ==
    /\ estrategia = "busquedaTabu"
    /\ pc = "bucle"
    /\ \/ /\ n \in 0..MaxVars
          /\ clausulasBase \in Formulas(n)
          /\ args \in [maxIteraciones : 0..MaxIter,
                        tenureBase : 0..(MaxTenureLargo \div 2)]
       \/ /\ n = 3
          /\ clausulasBase = FormulaAspiracion
          /\ args \in [maxIteraciones : 0..MaxIterAspiracion,
                        tenureBase : 0..MaxTenureLargo]
    /\ frecuenciasBase = Frecuencias(n, clausulasBase)
    /\ clausulas = clausulasBase
    /\ vars \in AsignacionesCompletas(n)
    /\ inicial = vars
    /\ loc = [tabuUntil |-> [j \in 1..n |-> 0],
              mejorSolucionGlobal |-> vars,
              mejorCostoGlobal |-> calcularCosto(clausulas, vars),
              costoActual |-> calcularCosto(clausulas, vars),
              iter |-> 1]
    /\ obs = ObsDesde(clausulas, vars)
    /\ costo = 0

SpecTabuTenure == InitTabuTenure /\ [][NextTabu]_todas

\* Two calls of busquedaTabu with the same arguments, one after the other:
\* the second starts from the same vector, and args keeps what the first
\* returned. Each call seeds its own generator from random_device, so the
\* tenures of the second are drawn afresh.
InitTabuRepetida ==
    /\ estrategia = "busquedaTabu"
    /\ pc = "bucle"
    /\ n = 3
    /\ clausulasBase = FormulaAspiracion
    /\ args \in [maxIteraciones : 0..MaxIterAspiracion, tenureBase : 0..MaxTenure]
    /\ frecuenciasBase = Frecuencias(n, clausulasBase)
    /\ clausulas = clausulasBase
    /\ vars \in AsignacionesCompletas(n)
    /\ inicial = vars
    /\ loc = [tabuUntil |-> [j \in 1..n |-> 0],
              mejorSolucionGlobal |-> vars,
              mejorCostoGlobal |-> calcularCosto(clausulas, vars),
              costoActual |-> calcularCosto(clausulas, vars),
              iter |-> 1]
    /\ obs = ObsDesde(clausulas, vars)
    /\ costo = 0

RepetirTabu ==
    /\ estrategia = "busquedaTabu"
    /\ pc = "fin"
    /\ "primera" \notin DOMAIN args
    /\ args' = [maxIteraciones |-> args.maxIteraciones,
                tenureBase |-> args.tenureBase,
                primera |-> vars]
    /\ pc' = "bucle"
    /\ vars' = inicial
    /\ loc' = [tabuUntil |-> [j \in 1..n |-> 0],
               mejorSolucionGlobal |-> inicial,
               mejorCostoGlobal |-> calcularCosto(clausulas, inicial),
               costoActual |-> calcularCosto(clausulas, inicial),
               iter |-> 1]
    /\ obs' = ObsDesde(clausulas, inicial)
    /\ UNCHANGED <<estrategia, n, clausulasBase, frecuenciasBase, inicial, clausulas,
                   costo>>

NextTabuRepetida == IteracionTabu \/ FinTabu \/ RepetirTabu

SpecTabuRepetida == InitTabuRepetida /\ [][NextTabuRepetida]_todas

(***************************************************************************)
(* Formula::recocidoSimulado, one action per inner iteration and one per   *)
(* cooling step.  Temperatures are counted in units of T_min (0.01): the   *)
(* explored schedules start at T_min * 2^k and cool by alpha = 1/2, which  *)
(* is exact in binary floating point.  Of probDist(gen) < probabilidad the *)
(* model keeps what decides the branch: exp(-delta / T) is 1 exactly when  *)
(* delta is 0 and lies strictly between 0 and 1 when delta > 0, and the    *)
(* draw lies in [0, 1), below the probability ("bajo") or not ("alto").    *)
(***************************************************************************)
T_min == 1

Potencia2(k) == IF k = 0 THEN 1 ELSE IF k = 1 THEN 2 ELSE IF k = 2 THEN 4 ELSE 8

Sorteos == {"bajo", "alto"}

probabilidad(delta, T) == IF delta = 0 THEN "uno" ELSE "menosDeUno"

\* Mutant: a move that does not change the cost is a coin toss too.
AceptaSoloBajo(delta, T, sorteo) == sorteo = "bajo"

\* probDist(gen) < probabilidad, for delta >= 0.
AceptaSA(delta, T, sorteo) ==
    IF probabilidad(delta, T) = "uno" THEN TRUE ELSE sorteo = "bajo"

InitSA ==
    /\ estrategia = "recocidoSimulado"
    /\ pc = "bucle"
    /\ n \in 0..MaxVars
    /\ clausulasBase \in Formulas(n)
    /\ frecuenciasBase = Frecuencias(n, clausulasBase)
    /\ clausulas = clausulasBase
    /\ vars \in AsignacionesCompletas(n)
    /\ inicial = vars
    /\ args \in [tempInicial : {T_min * Potencia2(k) : k \in 0..MaxNiveles},
                 alpha : {[num |-> 1, den |-> 2]},
                 iterPorTemp : 0..MaxIterPorTemp]
    /\ loc = [actual |-> vars,
              mejorSolucionGlobal |-> vars,
              costoActual |-> calcularCosto(clausulas, vars),
              mejorCostoGlobal |-> calcularCosto(clausulas, vars),
              T |-> args.tempInicial,
              i |-> 0,
              ultimo |-> [idx |-> 0, delta |-> 0, sorteo |-> "bajo"]]
    /\ obs = ObsDesde(clausulas, vars)
    /\ costo = 0

IteracionSA ==
    /\ estrategia = "recocidoSimulado"
    /\ pc = "bucle"
    /\ loc.T > T_min
    /\ loc.i < args.iterPorTemp
    /\ n > 0
    /\ \E idx \in 1..n, sorteo \in Sorteos :
         LET probado == FlipEn(loc.actual, idx)
             nuevoCosto == calcularCosto(clausulas, probado)
             delta == nuevoCosto - loc.costoActual
             siguiente ==
                 IF delta < 0
                 THEN [loc EXCEPT
                         !.actual = probado,
                         !.costoActual = nuevoCosto,
                         !.mejorCostoGlobal =
                             IF nuevoCosto < @ THEN nuevoCosto ELSE @,
                         !.mejorSolucionGlobal =
                             IF nuevoCosto < loc.mejorCostoGlobal THEN probado ELSE @]
                 ELSE IF AceptaSA(delta, loc.T, sorteo)
                      THEN [loc EXCEPT !.actual = probado, !.costoActual = nuevoCosto]
                      ELSE [loc EXCEPT !.actual = FlipEn(probado, idx)]
         IN /\ loc' = [siguiente EXCEPT
                          !.i = @ + 1,
                          !.ultimo = [idx |-> idx, delta |-> delta, sorteo |-> sorteo]]
            /\ obs' = Observar(obs, clausulas, siguiente.actual)
    /\ UNCHANGED <<marco, pc, clausulas, vars, costo>>

\* With an empty vector varDist is built over (0, -1), which the constructor
\* of the distribution forbids: a checked build stops there, before the loop.
\* In the other builds each inner iteration draws idx from that range and
\* flips actual[idx] outside the vector: the run is killed, or the access
\* lands outside the model's state and the iteration goes on (delta = 0).
SAVectorVacio ==
    /\ estrategia = "recocidoSimulado"
    /\ pc = "bucle"
    /\ n = 0
    /\ \/ /\ pc' = "fallo"
          /\ UNCHANGED <<loc, obs>>
       \/ /\ loc.T > T_min
          /\ loc.i < args.iterPorTemp
          /\ pc' = pc
          /\ loc' = [loc EXCEPT !.i = @ + 1]
          /\ obs' = [obs EXCEPT !.examinados = TRUE, !.fueraDeRango = TRUE]
    /\ UNCHANGED <<marco, clausulas, vars, costo>>

\* 3. Enfriamiento.
EnfriarSA ==
    /\ estrategia = "recocidoSimulado"
    /\ pc = "bucle"
    /\ loc.T > T_min
    /\ loc.i >= args.iterPorTemp
    /\ loc' = [loc EXCEPT !.T = (@ * args.alpha.num) \div args.alpha.den, !.i = 0]
    /\ UNCHANGED <<marco, pc, clausulas, vars, obs, costo>>

FinSA ==
    /\ estrategia = "recocidoSimulado"
    /\ pc = "bucle"
    /\ loc.T <= T_min
    /\ vars' = loc.mejorSolucionGlobal
    /\ pc' = "fin"
    /\ UNCHANGED <<marco, clausulas, loc, obs, costo>>

NextSA == IteracionSA \/ SAVectorVacio \/ EnfriarSA \/ FinSA

SpecSA == InitSA /\ [][NextSA]_todas

(***************************************************************************)
(* Formula::construccionGRASP, one action per iteration of its outer for   *)
(* loop, and Formula::busquedaGRASP, one action per trial.  alpha is a     *)
(* fraction num / den; c.second >= umbral is compared after multiplying    *)
(* both sides by den.                                                      *)
(***************************************************************************)
IntMax == 2147483647

CentinelaGRASP == -99999

Alphas == {[num |-> 0, den |-> 2], [num |-> 1, den |-> 2], [num |-> 2, den |-> 2]}

Beneficio(frecs, j) == Max(frecs[j].pos, frecs[j].neg)

\* candidatos: the variables whose entry is Unknown.
CandidatosGRASP(vs) == {j \in DOMAIN vs : vs[j] = "Unknown"}

\* Mutant: the threshold is not applied, every candidate enters the RCL.
RCLSinUmbral(vs, frecs, alpha) == CandidatosGRASP(vs)

\* 2. Definir el umbral para la RCL.
RCL(vs, frecs, alpha) ==
    LET cand == CandidatosGRASP(vs)
        s_max == CHOOSE b \in {Beneficio(frecs, j) : j \in cand} :
                    \A j \in cand : Beneficio(frecs, j) <= b
        s_min == CHOOSE b \in {Beneficio(frecs, j) : j \in cand} :
                    \A j \in cand : Beneficio(frecs, j) >= b
    IN IF cand = {} THEN {}
       ELSE {j \in cand :
               Beneficio(frecs, j) * alpha.den
                   >= s_max * alpha.den - alpha.num * (s_max - s_min)}

\* Mutant: every entry of the table is marked, not only the chosen one.
AsignarGRASPMarcaTodas(vs, frecs, idElegido) ==
    [vars |-> [vs EXCEPT ![idElegido] =
                  IF frecs[idElegido].pos >= frecs[idElegido].neg
                  THEN "True" ELSE "False"],
     frecs |-> [j \in DOMAIN frecs |-> Conteo(CentinelaGRASP, CentinelaGRASP)]]

\* Asignar y actualizar: the chosen variable takes the polarity of its
\* larger count and its own entry of the table becomes the sentinel.
AsignarGRASP(vs, frecs, idElegido) ==
    [vars |-> [vs EXCEPT ![idElegido] =
                  IF frecs[idElegido].pos >= frecs[idElegido].neg
                  THEN "True" ELSE "False"],
     frecs |-> [frecs EXCEPT ![idElegido] = Conteo(CentinelaGRASP, CentinelaGRASP)]]

\* Every vector the n iterations of construccionGRASP can leave in an
\* all-Unknown vector, over the draws of dis(gen).
RECURSIVE ConstruccionesGRASP(_, _, _, _)
ConstruccionesGRASP(vs, frecs, alpha, i) ==
    IF i >= Len(vs) THEN {vs}
    ELSE UNION { LET r == AsignarGRASP(vs, frecs, idElegido)
                 IN ConstruccionesGRASP(r.vars, r.frecs, alpha, i + 1) :
                 idElegido \in RCL(vs, frecs, alpha) }

InitConstruccion ==
    /\ estrategia = "construccionGRASP"
    /\ pc = "bucle"
    /\ n \in 0..MaxVars
    /\ clausulasBase \in Formulas(n)
    /\ frecuenciasBase = Frecuencias(n, clausulasBase)
    /\ clausulas = clausulasBase
    /\ vars \in Asignaciones(n)
    /\ inicial = vars
    /\ args \in [alpha : Alphas]
    /\ loc = [frecs |-> frecuenciasBase, i |-> 0]
    /\ obs = ObsInicial
    /\ costo = 0

PasoGRASP ==
    /\ estrategia = "construccionGRASP"
    /\ pc = "bucle"
    /\ loc.i < n
    /\ \E idElegido \in RCL(vars, loc.frecs, args.alpha) :
         LET r == AsignarGRASP(vars, loc.frecs, idElegido)
         IN /\ vars' = r.vars
            /\ loc' = [frecs |-> r.frecs, i |-> loc.i + 1]
    /\ obs' = [obs EXCEPT !.examinados = TRUE]
    /\ UNCHANGED <<marco, pc, clausulas, costo>>

\* With no Unknown entry left the RCL is empty, dis is built over (0, -1)
\* and rcl[dis(gen)] reads outside the empty vector: the run is killed, or
\* the garbage read as idElegido happens to be a valid index and the
\* iteration assigns that variable.
PasoGRASPVacia ==
    /\ estrategia = "construccionGRASP"
    /\ pc = "bucle"
    /\ loc.i < n
    /\ RCL(vars, loc.frecs, args.alpha) = {}
    /\ \/ /\ pc' = "fallo"
          /\ UNCHANGED <<vars, loc, obs>>
       \/ /\ pc' = pc
          /\ \E idElegido \in 1..n :
               LET r == AsignarGRASP(vars, loc.frecs, idElegido)
               IN /\ vars' = r.vars
                  /\ loc' = [frecs |-> r.frecs, i |-> loc.i + 1]
          /\ obs' = [obs EXCEPT !.fueraDeRango = TRUE]
    /\ UNCHANGED <<marco, clausulas, costo>>

FinConstruccion ==
    /\ estrategia = "construccionGRASP"
    /\ pc = "bucle"
    /\ loc.i >= n
    /\ pc' = "fin"
    /\ UNCHANGED <<marco, clausulas, vars, loc, obs, costo>>

NextConstruccion == PasoGRASP \/ PasoGRASPVacia \/ FinConstruccion

SpecConstruccion == InitConstruccion /\ [][NextConstruccion]_todas

\* construccionGRASP as busquedaGRASP calls it: on a vector whose entries
\* are all Unknown, with the base frequency table.
InitConstruccionGRASP ==
    /\ estrategia = "construccionGRASP"
    /\ pc = "bucle"
    /\ \/ /\ n \in 0..MaxVars
          /\ clausulasBase \in Formulas(n)
       \/ /\ n = 3
          /\ clausulasBase = FormulaAbierta
    /\ frecuenciasBase = Frecuencias(n, clausulasBase)
    /\ clausulas = clausulasBase
    /\ vars = TodasUnknown(n)
    /\ inicial = vars
    /\ args \in [alpha : Alphas]
    /\ loc = [frecs |-> frecuenciasBase, i |-> 0]
    /\ obs = ObsInicial
    /\ costo = 0

NextConstruccionGRASP == PasoGRASP \/ FinConstruccion

SpecConstruccionGRASP == InitConstruccionGRASP /\ [][NextConstruccionGRASP]_todas

\* A formula on which the greedy polarities followed by hill climbing stop
\* at cost 1 although (True, False) has cost 0.
FormulaTrampa == <<Clausula(<<-2>>), Clausula(<<-2, -1>>), Clausula(<<1, 2, 2>>)>>

InitGRASP ==
    /\ estrategia = "busquedaGRASP"
    /\ pc = "bucle"
    /\ n \in 0..MaxVars
    /\ clausulasBase \in Formulas(n) \cup (IF n = 2 THEN {FormulaTrampa} ELSE {})
    /\ frecuenciasBase = Frecuencias(n, clausulasBase)
    /\ clausulas = clausulasBase
    /\ vars \in AsignacionesCompletas(n) \cup {TodasUnknown(n)}
    /\ inicial = vars
    /\ args \in [maxIteraciones : 0..MaxIter, alpha : Alphas]
    /\ loc = [mejorCostoGlobal |-> IntMax, mejorSolucionGlobal |-> <<>>, i |-> 0]
    /\ obs = [ObsInicial EXCEPT !.minimo = IntMax]
    /\ costo = 0

AceptaGRASP(costoFinal, mejorCostoGlobal) == costoFinal < mejorCostoGlobal

IteracionGRASP ==
    /\ estrategia = "busquedaGRASP"
    /\ pc = "bucle"
    /\ loc.i < args.maxIteraciones
    /\ \E construida \in ConstruccionesGRASP(TodasUnknown(n), frecuenciasBase,
                                              args.alpha, 0) :
         LET actual == busquedaLocal(clausulas, construida)
             costoFinal == calcularCosto(clausulas, actual)
         IN /\ loc' = IF AceptaGRASP(costoFinal, loc.mejorCostoGlobal)
                      THEN [mejorCostoGlobal |-> costoFinal,
                            mejorSolucionGlobal |-> actual, i |-> loc.i + 1]
                      ELSE [loc EXCEPT !.i = @ + 1]
            /\ obs' = [obs EXCEPT !.examinados = @ \/ n > 0,
                                  !.minimo = Min(@, costoFinal)]
    /\ UNCHANGED <<marco, pc, clausulas, vars, costo>>

FinGRASP ==
    /\ estrategia = "busquedaGRASP"
    /\ pc = "bucle"
    /\ loc.i >= args.maxIteraciones
    /\ vars' = loc.mejorSolucionGlobal
    /\ pc' = "fin"
    /\ UNCHANGED <<marco, clausulas, loc, obs, costo>>

NextGRASP == IteracionGRASP \/ FinGRASP

SpecGRASP == InitGRASP /\ [][NextGRASP]_todas

(***************************************************************************)
(* busquedaGRASP with each construction run step by step.  While           *)
(* construccionGRASP runs, vars is its parameter (the trial's actual), loc *)
(* its locals, and args.llamador keeps the vector and the locals of        *)
(* busquedaGRASP.                                                          *)
(***************************************************************************)
InitGRASPPasos ==
    /\ estrategia = "busquedaGRASP"
    /\ pc = "bucle"
    /\ \/ /\ n \in 0..MaxVars
          /\ clausulasBase \in Formulas(n)
       \/ /\ n = 3
          /\ clausulasBase = FormulaAbierta
    /\ frecuenciasBase = Frecuencias(n, clausulasBase)
    /\ clausulas = clausulasBase
    /\ vars = TodasUnknown(n)
    /\ inicial = vars
    /\ args \in [maxIteraciones : 0..MaxIter, alpha : Alphas]
    /\ loc = [mejorCostoGlobal |-> IntMax, mejorSolucionGlobal |-> <<>>, i |-> 0]
    /\ obs = [ObsInicial EXCEPT !.minimo = IntMax]
    /\ costo = 0

\* vector<TBool> actual(vars.size(), TBool::Unknown) and the call of
\* construccionGRASP(actual, frecsOriginales, alpha, gen): frecs is a copy.
LlamaConstruccion ==
    /\ estrategia = "busquedaGRASP"
    /\ pc = "bucle"
    /\ loc.i < args.maxIteraciones
    /\ estrategia' = "construccionGRASP"
    /\ args' = [maxIteraciones |-> args.maxIteraciones, alpha |-> args.alpha,
                llamador |-> [vars |-> vars, loc |-> loc]]
    /\ vars' = TodasUnknown(n)
    /\ loc' = [frecs |-> frecuenciasBase, i |-> 0]
    /\ UNCHANGED <<pc, n, clausulasBase, frecuenciasBase, clausulas, inicial, obs, costo>>

\* construccionGRASP has returned: busquedaLocal(actual), the cost of the
\* result and the comparison with the best trial so far.
VuelveDeConstruccion ==
    /\ estrategia = "construccionGRASP"
    /\ pc = "fin"
    /\ "llamador" \in DOMAIN args
    /\ LET actual == busquedaLocal(clausulas, vars)
           costoFinal == calcularCosto(clausulas, actual)
           l == args.llamador.loc
       IN /\ loc' = IF AceptaGRASP(costoFinal, l.mejorCostoGlobal)
                     THEN [mejorCostoGlobal |-> costoFinal,
                           mejorSolucionGlobal |-> actual, i |-> l.i + 1]
                     ELSE [l EXCEPT !.i = @ + 1]
          /\ obs' = [obs EXCEPT !.minimo = Min(@, costoFinal)]
    /\ estrategia' = "busquedaGRASP"
    /\ pc' = "bucle"
    /\ vars' = args.llamador.vars
    /\ args' = [maxIteraciones |-> args.maxIteraciones, alpha |-> args.alpha]
    /\ UNCHANGED <<n, clausulasBase, frecuenciasBase, clausulas, inicial, costo>>

\* Inside busquedaGRASP the construction does not end the run.
FinConstruccionGRASP ==
    /\ "llamador" \in DOMAIN args
    /\ FinConstruccion

NextGRASPPasos ==
    \/ LlamaConstruccion
    \/ PasoGRASP
    \/ FinConstruccionGRASP
    \/ VuelveDeConstruccion
    \/ FinGRASP

SpecGRASPPasos == InitGRASPPasos /\ [][NextGRASPPasos]_todas

(***************************************************************************)
(* The flip and its revert, as busquedaLocal, busquedaTabu and             *)
(* recocidoSimulado write them, on a vector whose entries may hold any of  *)
(* the three values of TBool: one round of busquedaLocal, the scan of one  *)
(* iteration of busquedaTabu, one rejected move of recocidoSimulado.       *)
(***************************************************************************)
InitRevertir ==
    /\ estrategia \in {"busquedaLocal", "busquedaTabu", "recocidoSimulado"}
    /\ pc = "prueba"
    /\ n \in 0..MaxVars
    /\ clausulasBase \in Formulas(n)
    /\ frecuenciasBase = Frecuencias(n, clausulasBase)
    /\ clausulas = clausulasBase
    /\ vars \in Asignaciones(n)
    /\ inicial = vars
    /\ args = <<>>
    /\ loc = [tabuUntil |-> [j \in 1..n |-> 0],
              mejorCostoGlobal |-> calcularCosto(clausulas, vars),
              costoActual |-> calcularCosto(clausulas, vars),
              iter |-> 1,
              idx |-> 0]
    /\ obs = ObsInicial
    /\ costo = 0

\* One round of busquedaLocal: every rejected candidate is flipped back;
\* the round ends "movido" when it kept a flip.
RevierteLocal ==
    /\ estrategia = "busquedaLocal"
    /\ pc = "prueba"
    /\ LET r == Ronda(clausulas, vars, loc.costoActual)
       IN /\ vars' = r.vars
          /\ pc' = IF r.mejora THEN "movido" ELSE "revertido"
    /\ UNCHANGED <<marco, clausulas, loc, obs, costo>>

\* The scan of busquedaTabu: each variable is flipped, judged, flipped back.
RevierteTabu ==
    /\ estrategia = "busquedaTabu"
    /\ pc = "prueba"
    /\ vars' = Vecindad(clausulas, vars, loc).vars
    /\ pc' = "revertido"
    /\ UNCHANGED <<marco, clausulas, loc, obs, costo>>

\* A move of recocidoSimulado that is not accepted: the flip is undone.
RevierteSA ==
    /\ estrategia = "recocidoSimulado"
    /\ pc = "prueba"
    /\ \E idx \in 1..n :
         LET probado == FlipEn(vars, idx)
             delta == calcularCosto(clausulas, probado) - loc.costoActual
         IN /\ delta >= 0
            /\ ~ AceptaSA(delta, T_min * 2, "alto")
            /\ vars' = FlipEn(probado, idx)
            /\ loc' = [loc EXCEPT !.idx = idx]
    /\ pc' = "revertido"
    /\ UNCHANGED <<marco, clausulas, obs, costo>>

NextRevertir == RevierteLocal \/ RevierteTabu \/ RevierteSA

SpecRevertir == InitRevertir /\ [][NextRevertir]_todas

(***************************************************************************)
(* The six strategies of main, each on its own run.                        *)
(***************************************************************************)
Init == InitConstructivo \/ InitLocal \/ InitILS \/ InitTabu \/ InitSA \/ InitGRASP

Next == NextConstructivo \/ NextLocal \/ NextILS \/ NextTabu \/ NextSA \/ NextGRASP

Spec == Init /\ [][Next]_todas

(***************************************************************************)
(* One instance inside main: each repetition builds vars, frecs and the    *)
(* Formula from the base data, runs solverConstructivo, takes its cost and *)
(* hands a copy of its result to busquedaLocal.  args keeps the number of  *)
(* the repetition and what the first one produced.                         *)
(***************************************************************************)
\* The clauses (x1 or x2), (not x1 or x2), (not x2).
FormulaConvergencia == <<Clausula(<<1, 2>>), Clausula(<<-1, 2>>), Clausula(<<-2>>)>>

InitCorrida ==
    /\ estrategia = "solverConstructivo"
    /\ pc = "bucle"
    /\ \/ /\ n \in 0..MaxVars
          /\ clausulasBase \in Formulas(n)
       \/ /\ n = 2
          /\ clausulasBase = FormulaConvergencia
    /\ frecuenciasBase = Frecuencias(n, clausulasBase)
    /\ clausulas = clausulasBase
    /\ vars = TodasUnknown(n)
    /\ inicial = vars
    /\ args = [corrida |-> 0, varsH |-> <<>>, costoH |-> 0]
    /\ loc = [frecs |-> frecuenciasBase, variablesPendientes |-> n]
    /\ obs = ObsInicial
    /\ costo = 0

\* double costoH = problema.calcularCosto(vars); varsParaLS = vars; and the
\* call of problema.busquedaLocal(varsParaLS) begins.
PasaALocal ==
    /\ estrategia = "solverConstructivo"
    /\ pc = "fin"
    /\ estrategia' = "busquedaLocal"
    /\ pc' = "bucle"
    /\ costo' = calcularCosto(clausulas, vars)
    /\ inicial' = vars
    /\ args' = IF args.corrida = 0
               THEN [args EXCEPT !.varsH = vars, !.costoH = costo']
               ELSE args
    /\ loc' = [mejora |-> TRUE, costoActual |-> calcularCosto(clausulas, vars)]
    /\ UNCHANGED <<n, clausulasBase, frecuenciasBase, clausulas, vars, obs>>

\* Mutant: the Formula of the repetition before is used again.
SinCopiar(base, trabajo) == trabajo

\* Formula problema(clausulasBase): the constructor copies the clauses.
CopiaClausulas(base, trabajo) == base

\* The next repetition starts from the base data.
Repetir ==
    /\ estrategia = "busquedaLocal"
    /\ pc = "fin"
    /\ args.corrida + 1 < MaxCorridas
    /\ estrategia' = "solverConstructivo"
    /\ pc' = "bucle"
    /\ vars' = TodasUnknown(n)
    /\ inicial' = TodasUnknown(n)
    /\ clausulas' = CopiaClausulas(clausulasBase, clausulas)
    /\ loc' = [frecs |-> frecuenciasBase, variablesPendientes |-> n]
    /\ args' = [args EXCEPT !.corrida = @ + 1]
    /\ UNCHANGED <<n, clausulasBase, frecuenciasBase, obs, costo>>

NextCorrida ==
    \/ PasoConstructivo
    \/ FinConstructivo
    \/ PasaALocal
    \/ RondaLocal
    \/ FinLocal
    \/ Repetir

SpecCorrida == InitCorrida /\ [][NextCorrida]_todas

(***************************************************************************)
(* main: one task per input file inside the parallel loop. Here pc is the  *)
(* state of the whole program, args holds what each file contains, and loc *)
(* holds the position of each task (tarea), its repetitions done           *)
(* (corridas, up to MaxCorridas in place of NUM_CORRIDAS), the tasks whose *)
(* frequency table was indexed and on which the strategies ran, the holder *)
(* of the critical section (cerrojo, 0 when free) and the output so far.   *)
(***************************************************************************)
\* What a file holds: whether it opens, whether it has a 'p' line, the
\* variable count of that line, and whether it has clause lines.
Archivos ==
    { [abre |-> FALSE, preambulo |-> FALSE, variables |-> 0, lineas |-> FALSE],
      [abre |-> TRUE, preambulo |-> FALSE, variables |-> 0, lineas |-> FALSE],
      [abre |-> TRUE, preambulo |-> FALSE, variables |-> 0, lineas |-> TRUE],
      [abre |-> TRUE, preambulo |-> TRUE, variables |-> 0, lineas |-> FALSE],
      [abre |-> TRUE, preambulo |-> TRUE, variables |-> 1, lineas |-> TRUE] }

Tareas == DOMAIN args

InitMain ==
    /\ estrategia = "main"
    /\ pc = "paralelo"
    /\ n = 0
    /\ clausulasBase = <<>>
    /\ frecuenciasBase = <<>>
    /\ clausulas = <<>>
    /\ vars = <<>>
    /\ inicial = <<>>
    /\ \E na \in 1..MaxArchivos : args \in [1..na -> Archivos]
    /\ loc = [tarea |-> [f \in Tareas |-> "abrir"],
              corridas |-> [f \in Tareas |-> 0],
              indexadas |-> {},
              ejecutadas |-> {},
              cerrojo |-> 0,
              salida |-> << <<0, "encabezado">> >>]
    /\ obs = ObsInicial
    /\ costo = 0

\* ifstream archivo(nombreArchivo); if (!archivo.is_open()) continue;
Abrir(f) ==
    /\ loc.tarea[f] = "abrir"
    /\ loc' = [loc EXCEPT !.tarea[f] = IF args[f].abre THEN "leer" ELSE "omitido"]
    /\ UNCHANGED <<pc, obs>>

\* The reading loop. Without a 'p' line frecuenciasBase stays empty and
\* datosFormula stays {0, 0}; a clause line then makes crearClausula index
\* the empty table, which kills the program or goes unnoticed.
Leer(f) ==
    /\ loc.tarea[f] = "leer"
    /\ IF args[f].lineas
       THEN IF args[f].preambulo
            THEN /\ loc' = [loc EXCEPT !.tarea[f] = "corridas",
                                       !.indexadas = @ \cup {f}]
                 /\ UNCHANGED <<pc, obs>>
            ELSE \/ /\ pc' = "fallo"
                    /\ loc' = [loc EXCEPT !.indexadas = @ \cup {f}]
                    /\ obs' = [obs EXCEPT !.fueraDeRango = TRUE]
                 \/ /\ loc' = [loc EXCEPT !.tarea[f] = "corridas",
                                          !.indexadas = @ \cup {f}]
                    /\ obs' = [obs EXCEPT !.fueraDeRango = TRUE]
                    /\ UNCHANGED pc
       ELSE /\ loc' = [loc EXCEPT !.tarea[f] = "corridas"]
            /\ UNCHANGED <<pc, obs>>

\* One repetition: the six strategies run on the instance. With no
\* variable busquedaLocalIterada and recocidoSimulado draw from an empty
\* range: the program is killed, or the repetition goes on.
Corrida(f) ==
    /\ loc.tarea[f] = "corridas"
    /\ loc.corridas[f] < MaxCorridas
    /\ IF args[f].preambulo /\ args[f].variables > 0
       THEN /\ loc' = [loc EXCEPT !.corridas[f] = @ + 1,
                                  !.ejecutadas = @ \cup {f}]
            /\ UNCHANGED <<pc, obs>>
       ELSE \/ /\ pc' = "fallo"
               /\ loc' = [loc EXCEPT !.ejecutadas = @ \cup {f}]
               /\ obs' = [obs EXCEPT !.fueraDeRango = TRUE]
            \/ /\ loc' = [loc EXCEPT !.corridas[f] = @ + 1,
                                     !.ejecutadas = @ \cup {f}]
               /\ obs' = [obs EXCEPT !.fueraDeRango = TRUE]
               /\ UNCHANGED pc

\* The averages are taken and the task reaches #pragma omp critical.
FinCorridas(f) ==
    /\ loc.tarea[f] = "corridas"
    /\ loc.corridas[f] >= MaxCorridas
    /\ loc' = [loc EXCEPT !.tarea[f] = "espera"]
    /\ UNCHANGED <<pc, obs>>

\* Mutant: the section is entered whoever holds it.
EntraSinCerrojo(cerrojo) == TRUE

EntraLibre(cerrojo) == cerrojo = 0

Entrar(f) ==
    /\ loc.tarea[f] = "espera"
    /\ EntraLibre(loc.cerrojo)
    /\ loc' = [loc EXCEPT !.tarea[f] = "nombre", !.cerrojo = f]
    /\ UNCHANGED <<pc, obs>>

\* cout << ... << nombreCorto: the first insertion of the row.
EscribirNombre(f) ==
    /\ loc.tarea[f] = "nombre"
    /\ loc' = [loc EXCEPT !.tarea[f] = "medidas",
                          !.salida = Append(@, <<f, "nombre">>)]
    /\ UNCHANGED <<pc, obs>>

\* The remaining insertions up to endl; the section is left.
EscribirMedidas(f) ==
    /\ loc.tarea[f] = "medidas"
    /\ loc' = [loc EXCEPT !.tarea[f] = "hecho",
                          !.salida = Append(@, <<f, "medidas">>),
                          !.cerrojo = 0]
    /\ UNCHANGED <<pc, obs>>

PasoTarea(f) ==
    \/ Abrir(f)
    \/ Leer(f)
    \/ Corrida(f)
    \/ FinCorridas(f)
    \/ Entrar(f)
    \/ EscribirNombre(f)
    \/ EscribirMedidas(f)

Tarea ==
    /\ estrategia = "main"
    /\ pc = "paralelo"
    /\ \E f \in Tareas : PasoTarea(f)
    /\ UNCHANGED <<marco, clausulas, vars, costo>>

\* The loop ends when every task has ended; the closing line follows.
Pie ==
    /\ estrategia = "main"
    /\ pc = "paralelo"
    /\ \A f \in Tareas : loc.tarea[f] \in {"omitido", "hecho"}
    /\ loc' = [loc EXCEPT !.salida = Append(@, <<0, "pie">>)]
    /\ pc' = "fin"
    /\ UNCHANGED <<marco, clausulas, vars, obs, costo>>

NextMain == Tarea \/ Pie

SpecMain == InitMain /\ [][NextMain]_todas

(***************************************************************************)
(* Claims.                                                                 *)
(***************************************************************************)

\* Declarative reading of the cost: the clauses none of whose literals is true,
\* where a literal on an Unknown variable is not true.
ClausulasInsatisfechas(cls, vs) ==
    {k \in 1..Len(cls) :
        ~ \E i \in 1..Len(cls[k].variables) :
              LET v == cls[k].variables[i] IN
              \/ v > 0 /\ vs[Abs(v)] = "True"
              \/ v < 0 /\ vs[Abs(v)] = "False"}

\* C4: calcularCosto returns a value in [0, clauseCount], and the value the
\* caller obtained is still the cost of the formula after any reordering of
\* the literals inside a clause or of the clauses.
C4_CostoAcotadoEInvariante ==
    pc \in {"evaluado", "reordenada"} =>
        /\ costo \in 0..Len(clausulas)
        /\ costo = calcularCosto(clausulas, vars)

C4_Witness ==
    /\ pc = "reordenada"
    /\ Len(clausulas) = 2
    /\ costo = 1
    /\ \E k \in 1..2 : /\ Len(clausulas[k].variables) = 2
                        /\ clausulas[k].variables[1] # clausulas[k].variables[2]
                        /\ esSatisfecha(clausulas[k], vars)
                        /\ ~ LiteralCierto(clausulas[k].variables[1], vars)

\* C5: calcularCosto is the number of clauses in which no literal is true;
\* an Unknown variable satisfies neither polarity, so an all-Unknown clause
\* and an empty clause count as unsatisfied.
C5_CostoEsNumeroDeInsatisfechas ==
    pc = "evaluado" =>
        /\ costo = Cardinality(ClausulasInsatisfechas(clausulas, vars))
        /\ \A k \in 1..Len(clausulas) :
              (\A i \in 1..Len(clausulas[k].variables) :
                  vars[Abs(clausulas[k].variables[i])] = "Unknown")
              => ~ esSatisfecha(clausulas[k], vars)

C5_Witness ==
    /\ pc = "evaluado"
    /\ Len(clausulas) = 2
    /\ costo = 2
    /\ clausulas[1].variables = <<>>
    /\ Len(clausulas[2].variables) = 2
    /\ \A i \in 1..2 : vars[Abs(clausulas[2].variables[i])] = "Unknown"

\* C6: when solverConstructivo returns, every entry of the assignment is
\* True or False, also when the while loop was left early through its break.
C6_ConstructivoAsignaTodo ==
    (estrategia = "solverConstructivo" /\ pc = "fin") =>
        \A j \in 1..n : vars[j] \in {"True", "False"}

C6_Witness ==
    /\ estrategia = "solverConstructivo"
    /\ pc = "fin"
    /\ n = 2
    /\ loc.variablesPendientes = 1
    /\ obs.examinados
    /\ loc.frecs[2] = Conteo(0, 0)

Completa(vs) == \A j \in DOMAIN vs : vs[j] \in {"True", "False"}

\* C3: for a fully assigned start, calling busquedaLocal on its own result
\* returns that result unchanged, and at the result no flip of a single
\* variable of the formula, candidate or not, gives a strictly lower cost.
C3_LocalIdempotente ==
    (estrategia = "busquedaLocal" /\ Completa(inicial)) =>
        /\ pc = "refin" => vars = obs.resultado
        /\ pc = "fin" =>
             \A j \in 1..n :
                 calcularCosto(clausulas, FlipEn(vars, j)) >= calcularCosto(clausulas, vars)

C3_Witness ==
    /\ estrategia = "busquedaLocal"
    /\ pc = "refin"
    /\ Completa(inicial)
    /\ vars # inicial
    /\ calcularCosto(clausulas, vars) = 1
    /\ \E j \in 1..n :
         \A k \in 1..Len(Candidatos(clausulas, vars)) :
             Candidatos(clausulas, vars)[k] # j

Metaheuristicas == {"busquedaLocalIterada", "busquedaTabu", "recocidoSimulado"}

\* C1: ILS, tabu search and simulated annealing, started on a fully assigned
\* vector, return a vector whose cost is at most the cost of the start and
\* is the least cost among the assignments the run held as its current one.
C1_MejorNoEmpeora ==
    (estrategia \in Metaheuristicas /\ pc = "fin") =>
        /\ calcularCosto(clausulas, vars) <= calcularCosto(clausulas, inicial)
        /\ calcularCosto(clausulas, vars) = obs.minimo

C1_Witness ==
    /\ estrategia = "busquedaTabu"
    /\ pc = "fin"
    /\ calcularCosto(clausulas, vars) < calcularCosto(clausulas, inicial)
    /\ loc.costoActual > loc.mejorCostoGlobal

\* C2: busquedaGRASP returns in vars an assignment of the formula whose cost
\* is at most the cost of the vector that was passed in, for every vector
\* passed in, every alpha and every maxIteraciones.
C2_GRASPNoEmpeoraLaEntrada ==
    (estrategia = "busquedaGRASP" /\ pc = "fin") =>
        /\ Len(vars) = n
        /\ calcularCosto(clausulas, vars) <= calcularCosto(clausulas, inicial)

\* The cost busquedaTabu computes for the flip of variable i, and the two
\* tests of its scan, on the current state.
CostoVecino(i) == calcularCosto(clausulas, FlipEn(vars, i))

EsTabu(i) == loc.iter < loc.tabuUntil[i]

Aspira(i) == CostoVecino(i) < loc.mejorCostoGlobal

\* C7: in an iteration of busquedaTabu a variable i that is tabu but whose
\* flip costs strictly less than the best cost known competes like any other
\* candidate: the iteration flips exactly one variable j, of cost no higher
\* than that of i, and of index no higher than i when the costs are equal.
C7_AspiracionAdmiteTabu ==
    [][(estrategia = "busquedaTabu" /\ pc = "bucle" /\ pc' = "bucle") =>
          \A i \in 1..n :
             (EsTabu(i) /\ Aspira(i)) =>
                \E j \in 1..n :
                   /\ vars' = FlipEn(vars, j)
                   /\ \/ CostoVecino(j) < CostoVecino(i)
                      \/ CostoVecino(j) = CostoVecino(i) /\ j <= i]_todas

C7_Witness ==
    /\ estrategia = "busquedaTabu"
    /\ pc = "fin"
    /\ obs.aspiro
    /\ calcularCosto(clausulas, vars) = 0
    /\ calcularCosto(clausulas, inicial) = 2

\* C8: on a formula without clauses every strategy returns, the vector it
\* returns has cost 0, and it has examined (flipped or evaluated) no
\* candidate variable on the way.
C8_FormulaVaciaSinExaminar ==
    Len(clausulas) = 0 =>
        /\ pc # "fallo"
        /\ pc = "fin" => /\ calcularCosto(clausulas, vars) = 0
                         /\ ~ obs.examinados

\* C9: on the instance with no variable and no clause every strategy ends
\* normally: no index is drawn from an empty range, no element of the empty
\* vector is read or written, and the vector returned is empty.
C9_CeroVariablesTerminaBien ==
    (n = 0 /\ Len(clausulas) = 0) =>
        /\ pc # "fallo"
        /\ ~ obs.fueraDeRango
        /\ pc = "fin" => vars = <<>>

\* C10: in construccionGRASP the RCL is empty only when no Unknown entry
\* remains, and no element is selected from an empty RCL: the step is then
\* neither a fault nor an assignment.
C10_RCLVaciaSinFallo ==
    estrategia = "construccionGRASP" =>
        /\ (pc = "bucle" /\ loc.i < n /\ RCL(vars, loc.frecs, args.alpha) = {})
               => CandidatosGRASP(vars) = {}
        /\ pc # "fallo"
        /\ ~ obs.fueraDeRango

\* C11 as claimed: a round of ILS flips k = max(1, round(0.05 * n)) times,
\* the product rounded to the nearest integer (a half rounds up).
C11_FlipsRedondeados ==
    (estrategia = "perturbacion" /\ pc = "perturbado") =>
        loc.j = Max(1, (n + 10) \div 20)

\* C11 as amended: a round of ILS flips k = max(1, floor(0.05 * n)) times,
\* the product truncated: one flip up to 39 variables, two from 40 on.
C11_FlipsTruncados ==
    (estrategia = "perturbacion" /\ pc = "perturbado") =>
        /\ loc.j = Max(1, n \div 20)
        /\ loc.j >= 1

C11_Witness ==
    /\ estrategia = "perturbacion"
    /\ pc = "perturbado"
    /\ n = 30
    /\ loc.j = 1

\* The variables of the clauses that the best vector known satisfies.
EnSatisfechas ==
    UNION { {Abs(clausulas[c].variables[i]) : i \in 1..Len(clausulas[c].variables)} :
            c \in {d \in 1..Len(clausulas) : esSatisfecha(clausulas[d], vars)} }

\* C12: every variable the perturbation of busquedaLocalIterada flips occurs
\* in a clause that is satisfied under the best assignment known.
C12_PerturbaEnSatisfechas ==
    [][(estrategia = "perturbacion" /\ loc'.j > loc.j) =>
          loc'.idx \in EnSatisfechas]_todas

\* An instance the driver cannot use: the file does not open, or it has no
\* 'p' line.
NoDisponible(f) == ~ args[f].abre \/ ~ args[f].preambulo

Escritos(f) == {i \in 1..Len(loc.salida) : loc.salida[i][1] = f}

\* C14: an instance whose file cannot be opened or has no 'p' line is
\* skipped: no strategy runs on it, the frequency table is never indexed for
\* it and no row is printed for it, and the program goes on with the other
\* instances (it is not killed when every usable instance has a variable).
C14_InstanciaNoDisponibleOmitida ==
    estrategia = "main" =>
        /\ \A f \in Tareas :
              NoDisponible(f) =>
                 /\ f \notin loc.ejecutadas
                 /\ f \notin loc.indexadas
                 /\ Escritos(f) = {}
        /\ (\A f \in Tareas : NoDisponible(f) \/ args[f].variables > 0)
              => pc # "fallo"

EnSeccion == {f \in Tareas : loc.tarea[f] \in {"nombre", "medidas"}}

\* C15: whatever the interleaving of the tasks, at most one task is inside
\* the critical section; a row is written only by a task that has done all
\* its repetitions, at most once, and its two pieces are adjacent in the
\* output; the header is the first line and the closing line the last; and
\* when main ends every opened instance has exactly one row and the others
\* none.
C15_FilasEnExclusionMutua ==
    estrategia = "main" =>
        /\ Cardinality(EnSeccion) <= 1
        /\ loc.salida[1] = <<0, "encabezado">>
        /\ \A i \in 2..Len(loc.salida) :
              LET e == loc.salida[i]
              IN /\ e # <<0, "encabezado">>
                 /\ e = <<0, "pie">> => (i = Len(loc.salida) /\ pc = "fin")
                 /\ e[1] # 0 => loc.corridas[e[1]] = MaxCorridas
                 /\ e[2] = "medidas" => loc.salida[i - 1] = <<e[1], "nombre">>
                 /\ e[2] = "nombre" =>
                       IF i = Len(loc.salida)
                       THEN loc.tarea[e[1]] = "medidas"
                       ELSE loc.salida[i + 1] = <<e[1], "medidas">>
        /\ \A f \in Tareas : Cardinality(Escritos(f)) <= 2
        /\ pc = "fin" =>
              \A f \in Tareas :
                 Cardinality(Escritos(f)) = IF args[f].abre THEN 2 ELSE 0

C15_Witness ==
    /\ estrategia = "main"
    /\ \E f, g \in Tareas :
          /\ loc.tarea[f] = "medidas"
          /\ loc.tarea[g] = "espera"
          /\ Escritos(g) = {}

\* C16: in recocidoSimulado a flip that leaves the cost unchanged is kept,
\* never reverted, at every temperature of the loop and for every draw of
\* probDist: after such an inner iteration actual is the flipped vector and
\* costoActual is the same.
C16_DeltaCeroSeAcepta ==
    [][(estrategia = "recocidoSimulado" /\ n > 0 /\ loc'.i = loc.i + 1) =>
          LET idx == loc'.ultimo.idx
              probado == FlipEn(loc.actual, idx)
          IN calcularCosto(clausulas, probado) = loc.costoActual =>
                /\ loc'.actual = probado
                /\ loc'.costoActual = loc.costoActual]_todas

C16_Witness ==
    /\ estrategia = "recocidoSimulado"
    /\ loc.ultimo.idx > 0
    /\ loc.ultimo.delta = 0
    /\ loc.ultimo.sorteo = "alto"
    /\ Len(clausulas) > 0
    /\ loc.T = T_min * 2
    /\ args.tempInicial = T_min * 4

\* C17: on (x1 or x2), (not x1 or x2), (not x2) no assignment has cost 0,
\* and solverConstructivo from the all-Unknown vector followed by
\* busquedaLocal ends on a vector of cost exactly 1.
C17_ConvergeACostoUno ==
    (clausulasBase = FormulaConvergencia /\ estrategia = "busquedaLocal"
       /\ pc = "fin" /\ "corrida" \in DOMAIN args) =>
        /\ \A a \in AsignacionesCompletas(2) : calcularCosto(clausulas, a) >= 1
        /\ calcularCosto(clausulas, vars) = 1
        /\ costo = 1

C17_Witness ==
    /\ clausulasBase = FormulaConvergencia
    /\ estrategia = "busquedaLocal"
    /\ pc = "fin"
    /\ "corrida" \in DOMAIN args
    /\ vars = <<"False", "True">>

\* C18: a second run of solverConstructivo on fresh copies of the same base
\* clauses and base frequency table returns the same vector with the same
\* cost as the first, and no run changes the base data: the base clauses
\* stay undecided and the base table stays the count of their literals.
C18_ConstructivoDeterminista ==
    ("corrida" \in DOMAIN args) =>
        /\ (estrategia = "solverConstructivo" /\ pc = "fin" /\ args.corrida >= 1) =>
              /\ vars = args.varsH
              /\ calcularCosto(clausulas, vars) = args.costoH
        /\ \A c \in 1..Len(clausulasBase) : clausulasBase[c].satisfaccion = "Unknown"
        /\ frecuenciasBase = Frecuencias(n, clausulasBase)

C18_Witness ==
    /\ "corrida" \in DOMAIN args
    /\ estrategia = "solverConstructivo"
    /\ pc = "fin"
    /\ args.corrida = 1
    /\ \E c \in 1..Len(clausulas) : clausulas[c].satisfaccion # "Unknown"
    /\ loc.frecs # frecuenciasBase
    /\ \E j \in 1..n : vars[j] = "True"

Total(frecs, j) == frecs[j].pos + frecs[j].neg

\* C20: every step of solverConstructivo chooses one variable j that was not
\* chosen before, whose pos + neg is the greatest among the variables not
\* yet chosen and which is the first of them with that count; j gets True
\* when pos >= neg and False otherwise, j is marked with the sentinel, and
\* no other entry of the vector changes.
C20_EligeLaModaPendiente ==
    [][(estrategia = "solverConstructivo" /\ pc = "bucle"
          /\ loc'.variablesPendientes = loc.variablesPendientes - 1) =>
          \E j \in 1..n :
             /\ vars[j] = "Unknown"
             /\ loc.frecs[j].pos # Centinela
             /\ \A i \in 1..n :
                   vars[i] = "Unknown" =>
                      /\ Total(loc.frecs, i) <= Total(loc.frecs, j)
                      /\ Total(loc.frecs, i) = Total(loc.frecs, j) => j <= i
             /\ vars'[j] = IF loc.frecs[j].pos >= loc.frecs[j].neg
                           THEN "True" ELSE "False"
             /\ loc'.frecs[j].pos <= Centinela
             /\ loc'.frecs[j].neg <= Centinela
             /\ \A i \in 1..n : i # j => vars'[i] = vars[i]]_todas

C20_Witness ==
    /\ estrategia = "solverConstructivo"
    /\ pc = "bucle"
    /\ n = 2
    /\ loc.variablesPendientes = 1
    /\ vars[1] # "Unknown"
    /\ vars[2] = "Unknown"
    /\ Total(frecuenciasBase, 1) = Total(frecuenciasBase, 2)
    /\ frecuenciasBase[1].pos < frecuenciasBase[1].neg

\* C13: a randomized strategy takes its randomness from the generator the
\* caller supplies, so a second run on the same formula, starting vector
\* and parameters returns the same vector as the first. busquedaTabu is
\* given no generator: its two runs have all their inputs in common.
C13_TabuReproducible ==
    (estrategia = "busquedaTabu" /\ pc = "fin" /\ "primera" \in DOMAIN args) =>
        vars = args.primera

\* The vectors a strategy holds between its moves.
Iterados ==
    IF estrategia = "busquedaLocalIterada" THEN {vars, loc.mejorSolucion}
    ELSE IF estrategia = "busquedaTabu" THEN {vars, loc.mejorSolucionGlobal}
    ELSE IF estrategia = "recocidoSimulado"
         THEN {vars, loc.actual, loc.mejorSolucionGlobal}
    ELSE {vars}

\* C19: from a fully assigned vector, every vector that busquedaLocal, ILS,
\* tabu search and SA hold between moves or return has only True and False
\* entries, and so has the vector busquedaGRASP returns.
C19_NuncaVuelveAUnknown ==
    /\ (estrategia \in {"busquedaLocal", "busquedaLocalIterada", "busquedaTabu",
                         "recocidoSimulado"} /\ Completa(inicial)) =>
           \A v \in Iterados : Completa(v)
    /\ (estrategia = "busquedaGRASP" /\ pc = "fin") => Completa(vars)

C19_Witness ==
    /\ estrategia = "recocidoSimulado"
    /\ n = 2
    /\ loc.ultimo.idx > 0
    /\ loc.ultimo.delta > 0
    /\ loc.ultimo.sorteo = "alto"
    /\ loc.actual # inicial

\* The occurrences of a literal in the clauses of a set of positions.
OcurrenciasEn(cls, S, lit) ==
    Suma([k \in 1..Len(cls) |->
            IF k \in S
            THEN Cardinality({i \in 1..Len(cls[k].variables) :
                                cls[k].variables[i] = lit})
            ELSE 0])

Abiertas(cls) == {k \in 1..Len(cls) : cls[k].satisfaccion = "Unknown"}

\* C21: while solverConstructivo loops, the pos and neg counts of every
\* variable not yet chosen are the numbers of its positive and negative
\* occurrences in the clauses whose status is still Unknown, so they are
\* never negative; and a step subtracts from the table the literals of
\* exactly the clauses it takes from Unknown to True or False, whose status
\* is right and never changes again.
C21_FrecuenciasDeClausulasAbiertas ==
    /\ [](  (estrategia = "solverConstructivo" /\ pc = "bucle") =>
             \A j \in 1..n :
                vars[j] = "Unknown" =>
                   /\ loc.frecs[j] =
                         Conteo(OcurrenciasEn(clausulas, Abiertas(clausulas), j),
                                OcurrenciasEn(clausulas, Abiertas(clausulas), -j))
                   /\ loc.frecs[j].pos >= 0
                   /\ loc.frecs[j].neg >= 0)
    /\ [][(estrategia = "solverConstructivo" /\ pc = "bucle"
            /\ loc'.variablesPendientes = loc.variablesPendientes - 1) =>
            LET cerradas == Abiertas(clausulas) \ Abiertas(clausulas')
                antes(j) == IF vars[j] = "Unknown" /\ vars'[j] # "Unknown"
                            THEN Conteo(Centinela, Centinela)
                            ELSE loc.frecs[j]
            IN /\ \A j \in 1..n :
                     loc'.frecs[j] =
                        Conteo(antes(j).pos - OcurrenciasEn(clausulas, cerradas, j),
                               antes(j).neg - OcurrenciasEn(clausulas, cerradas, -j))
               /\ \A k \in 1..Len(clausulas) :
                     /\ clausulas'[k].variables = clausulas[k].variables
                     /\ k \notin Abiertas(clausulas) => clausulas'[k] = clausulas[k]
                     /\ k \in cerradas =>
                           /\ clausulas'[k].satisfaccion = "True"
                                 <=> k \notin ClausulasInsatisfechas(clausulas, vars')
                           /\ \A i \in 1..Len(clausulas[k].variables) :
                                 clausulas'[k].satisfaccion = "False" =>
                                    vars'[Abs(clausulas[k].variables[i])] # "Unknown"]_todas

C21_Witness ==
    /\ estrategia = "solverConstructivo"
    /\ pc = "bucle"
    /\ \E j \in 1..n :
          /\ vars[j] = "Unknown"
          /\ loc.frecs[j].pos < frecuenciasBase[j].pos
          /\ loc.frecs[j].pos > 0
    /\ \E k \in 1..Len(clausulas) : clausulas[k].satisfaccion = "True"


\* The variables of the clauses that are not satisfied under vs.
EnInsatisfechas(cls, vs) ==
    UNION { {Abs(cls[k].variables[i]) : i \in 1..Len(cls[k].variables)} :
            k \in ClausulasInsatisfechas(cls, vs) }

\* The candidates whose flip costs strictly less than vs does.
Mejoran(cls, vs) ==
    {j \in EnInsatisfechas(cls, vs) :
        calcularCosto(cls, FlipEn(vs, j)) < calcularCosto(cls, vs)}

\* C22: a round of busquedaLocal looks at the variables of the clauses that
\* are unsatisfied under the current vector, each once and in increasing
\* index; the flip it keeps is that of the first of them whose flip costs
\* strictly less than the current vector, a flip is kept exactly when there
\* is such a variable, and the round changes no other entry (none at all
\* when no flip is kept).
C22_PrimeraMejoraEnInsatisfechas ==
    [][(estrategia = "busquedaLocal" /\ pc = "bucle" /\ pc' = "bucle") =>
          /\ Cardinality({i \in 1..n : vars'[i] # vars[i]}) <= 1
          /\ loc'.mejora <=> Mejoran(clausulas, vars) # {}
          /\ loc'.mejora =>
                \E j \in Mejoran(clausulas, vars) :
                   /\ \A i \in Mejoran(clausulas, vars) : j <= i
                   /\ vars' = FlipEn(vars, j)
          /\ ~ loc'.mejora => vars' = vars]_todas

C22_Witness ==
    /\ estrategia = "busquedaLocal"
    /\ pc = "bucle"
    /\ obs.flips = 1
    /\ n = 2
    /\ vars = FlipEn(inicial, 2)
    /\ 1 \in EnInsatisfechas(clausulas, inicial)
    /\ 1 \notin Mejoran(clausulas, inicial)

\* C23: busquedaLocal returns, from every starting vector (Unknown entries
\* included); a round that keeps a flip lowers the cost of the vector and the
\* running cost strictly; the rounds that kept a flip are never more than
\* the cost of the starting vector; and after a round that kept none the
\* only step left is the return, which leaves the vector as it is.
C23_LocalTermina ==
    /\ <>(estrategia = "busquedaLocal" /\ pc = "fin")
    /\ [](estrategia = "busquedaLocal" =>
             obs.flips <= calcularCosto(clausulas, inicial))
    /\ [][(estrategia = "busquedaLocal" /\ pc = "bucle") =>
            /\ loc'.mejora =>
                  /\ pc' = "bucle"
                  /\ calcularCosto(clausulas, vars') < calcularCosto(clausulas, vars)
                  /\ loc'.costoActual < loc.costoActual
            /\ ~ loc.mejora => (pc' = "fin" /\ vars' = vars)]_todas

C23_Witness ==
    /\ estrategia = "busquedaLocal"
    /\ pc = "fin"
    /\ obs.flips = 2
    /\ calcularCosto(clausulas, inicial) = 2
    /\ \E j \in 1..n : inicial[j] = "Unknown"

\* The variables an iteration of busquedaTabu may flip: those that are not
\* tabu and those whose flip beats the best cost known.
Admisibles == {i \in 1..n : ~ EsTabu(i) \/ Aspira(i)}

\* C24: an iteration of busquedaTabu with an admissible variable flips
\* exactly one variable, the admissible one of least delta and of lowest
\* index among those, whatever the sign of that delta, and adds the delta to
\* the running cost; an iteration without admissible variable leaves the
\* vector, the running cost and the tabu table as they were.
C24_UnFlipPorIteracion ==
    [][(estrategia = "busquedaTabu" /\ pc = "bucle" /\ pc' = "bucle") =>
          IF Admisibles # {}
          THEN \E j \in Admisibles :
                  /\ \A i \in Admisibles :
                        \/ CostoVecino(j) < CostoVecino(i)
                        \/ CostoVecino(j) = CostoVecino(i) /\ j <= i
                  /\ vars' = FlipEn(vars, j)
                  /\ vars' # vars
                  /\ loc'.costoActual = CostoVecino(j)
                  /\ \A i \in 1..n : i # j => loc'.tabuUntil[i] = loc.tabuUntil[i]
          ELSE /\ vars' = vars
               /\ loc'.costoActual = loc.costoActual
               /\ loc'.tabuUntil = loc.tabuUntil
               /\ loc'.mejorSolucionGlobal = loc.mejorSolucionGlobal]_todas

C24_Witness ==
    /\ estrategia = "busquedaTabu"
    /\ n = 1
    /\ loc.iter = 3
    /\ vars # inicial
    /\ loc.costoActual > loc.mejorCostoGlobal
    /\ loc.tabuUntil[1] > 2

\* The last iteration of busquedaTabu that flipped variable j, 0 if none.
UltimoFlip(j) == IF j \in DOMAIN obs.ultimoFlip THEN obs.ultimoFlip[j] ELSE 0

\* C25: the variable an iteration t of busquedaTabu flips gets the expiry
\* t + tenureBase + r with r in 0..5; a variable flipped at t is flipped at a
\* later iteration before t + tenureBase only if its flip costs strictly
\* less than the best cost known; and a variable never flipped is not tabu.
C25_TenureProhibe ==
    /\ [](estrategia = "busquedaTabu" =>
             \A j \in 1..n :
                IF UltimoFlip(j) = 0
                THEN loc.tabuUntil[j] = 0 /\ (pc = "bucle" => ~ EsTabu(j))
                ELSE loc.tabuUntil[j] - (UltimoFlip(j) + args.tenureBase)
                        \in 0..VariacionTenure)
    /\ [][(estrategia = "busquedaTabu" /\ pc = "bucle" /\ pc' = "bucle") =>
            \A j \in 1..n :
               vars'[j] # vars[j] =>
                  /\ loc'.tabuUntil[j] - (loc.iter + args.tenureBase)
                        \in 0..VariacionTenure
                  /\ (UltimoFlip(j) > 0 /\ UltimoFlip(j) < loc.iter
                        /\ loc.iter < UltimoFlip(j) + args.tenureBase)
                       => CostoVecino(j) < loc.mejorCostoGlobal]_todas

C25_Witness ==
    /\ estrategia = "busquedaTabu"
    /\ n = 3
    /\ args.tenureBase = 4
    /\ loc.iter = 5
    /\ obs.aspiro
    /\ UltimoFlip(1) = 4
    /\ UltimoFlip(2) = 2
    /\ UltimoFlip(3) = 3

\* The variables construccionGRASP has not assigned yet.
Pendientes == {j \in 1..n : vars[j] = "Unknown"}

\* C26: a step of construccionGRASP selects a variable that is still
\* Unknown and whose benefit max(pos, neg) is at least
\* S_max - alpha * (S_max - S_min) over the Unknown variables (the maximum
\* when alpha is 0), gives it True when pos >= neg and False otherwise; with
\* alpha = 1 every Unknown variable is in the RCL; a step always has a
\* variable to select, and after the n steps no entry is Unknown.
C26_SeleccionEnRCL ==
    /\ [](estrategia = "construccionGRASP" =>
             /\ (pc = "bucle" /\ loc.i < n) =>
                   /\ Pendientes # {}
                   /\ RCL(vars, loc.frecs, args.alpha) # {}
                   /\ args.alpha.num = args.alpha.den =>
                         RCL(vars, loc.frecs, args.alpha) = Pendientes
             /\ pc = "fin" => \A j \in 1..n : vars[j] \in {"True", "False"})
    /\ [][(estrategia = "construccionGRASP" /\ pc = "bucle" /\ loc'.i = loc.i + 1) =>
            \E j \in Pendientes :
               /\ \A a, b \in Pendientes :
                     ((\A i \in Pendientes : Beneficio(loc.frecs, i) <= Beneficio(loc.frecs, a))
                      /\ (\A i \in Pendientes : Beneficio(loc.frecs, i) >= Beneficio(loc.frecs, b)))
                     => Beneficio(loc.frecs, j) * args.alpha.den
                           >= Beneficio(loc.frecs, a) * args.alpha.den
                              - args.alpha.num
                                * (Beneficio(loc.frecs, a) - Beneficio(loc.frecs, b))
               /\ args.alpha.num = 0 =>
                     \A i \in Pendientes :
                        Beneficio(loc.frecs, i) <= Beneficio(loc.frecs, j)
               /\ vars' = [vars EXCEPT ![j] =
                             IF loc.frecs[j].pos >= loc.frecs[j].neg
                             THEN "True" ELSE "False"]]_todas

C26_Witness ==
    /\ estrategia = "construccionGRASP"
    /\ pc = "bucle"
    /\ n = 3
    /\ loc.i = 2
    /\ args.alpha.num = args.alpha.den
    /\ vars = <<"False", "Unknown", "True">>

\* C27: a step of construccionGRASP assigns one Unknown variable and marks
\* its own entry of the table with the sentinel; every other entry of the
\* vector and of the table stays as it was; and no step of busquedaGRASP or
\* of construccionGRASP changes the clauses or the caller's frequency table.
C27_SoloLaElegidaCambia ==
    [][(estrategia \in {"busquedaGRASP", "construccionGRASP"}) =>
          /\ clausulas' = clausulas
          /\ clausulasBase' = clausulasBase
          /\ frecuenciasBase' = frecuenciasBase
          /\ (estrategia = "construccionGRASP" /\ estrategia' = estrategia
                /\ pc = "bucle" /\ loc'.i = loc.i + 1) =>
                \E j \in 1..n :
                   /\ vars[j] = "Unknown"
                   /\ vars'[j] # "Unknown"
                   /\ loc'.frecs[j] = Conteo(CentinelaGRASP, CentinelaGRASP)
                   /\ \A i \in 1..n :
                         i # j => /\ vars'[i] = vars[i]
                                  /\ loc'.frecs[i] = loc.frecs[i]]_todas

C27_Witness ==
    /\ estrategia = "construccionGRASP"
    /\ pc = "bucle"
    /\ "llamador" \in DOMAIN args
    /\ args.llamador.loc.i = 1
    /\ n = 3
    /\ loc.i = 1
    /\ vars = <<"False", "Unknown", "Unknown">>
    /\ loc.frecs[2] = Conteo(2, 1)
    /\ loc.frecs[3] = Conteo(1, 0)
    /\ frecuenciasBase[1] = Conteo(1, 2)

\* C28: from a fully assigned start, whenever busquedaTabu is about to
\* begin an iteration (or to return) costoActual is the cost of its vector,
\* whenever recocidoSimulado is about to begin an inner iteration, to cool
\* or to return costoActual is the cost of actual, after an accepted move
\* as after a reverted one; and in both mejorCostoGlobal is the cost of
\* mejorSolucionGlobal.
C28_CostoIncrementalExacto ==
    /\ (estrategia = "busquedaTabu" /\ pc = "bucle") =>
          /\ loc.costoActual = calcularCosto(clausulas, vars)
          /\ loc.mejorCostoGlobal = calcularCosto(clausulas, loc.mejorSolucionGlobal)
    /\ (estrategia = "recocidoSimulado" /\ pc = "bucle") =>
          /\ loc.costoActual = calcularCosto(clausulas, loc.actual)
          /\ loc.mejorCostoGlobal = calcularCosto(clausulas, loc.mejorSolucionGlobal)

C28_Witness ==
    /\ estrategia = "busquedaTabu"
    /\ pc = "bucle"
    /\ loc.iter = 3
    /\ loc.costoActual = 2
    /\ loc.mejorCostoGlobal = 0
    /\ calcularCosto(clausulas, inicial) = 0

\* C29: after the rejected candidates of a round of busquedaLocal, after the
\* scan of an iteration of busquedaTabu and after a rejected move of
\* recocidoSimulado, the vector is the one from before the trial flips,
\* whatever its entries held: True, False or Unknown.
C29_RevertirRestaura ==
    pc = "revertido" => vars = inicial

\* C30: every strategy returns a vector whose length is the length of the
\* vector it was given, for every iteration budget, 0 included.
C30_LongitudConservada ==
    pc = "fin" => Len(vars) = Len(inicial)

====
